---- MODULE Spec2Model ----
(***************************************************************************)
(* A model of the version comparator, the dependency lookup, the           *)
(* transaction orderer and the cpio hardlink bookkeeping of                *)
(* scripts/oldpyrpm.py.                                                    *)
(*                                                                         *)
(* Strings are sequences of character codes (ASCII), so that the           *)
(* character classes and the lexicographic order of the code are the       *)
(* ones of the model.  Python indexes are 0-based: str[i] is s[i + 1].     *)
(***************************************************************************)
EXTENDS Integers, Sequences, FiniteSets, TLC

VARIABLES
    arg,        \* pure functions: the call under test and its arguments
    res,        \* pure functions: what the call returned
    pc,         \* position of the operation under test
    resolver,   \* RpmOrderer.resolver: the requirements and who resolves them
    orderer,    \* the RpmOrderer whose order() is running
    stack,      \* the callers suspended in _genEraseOps
    relations,  \* the RpmRelations being ordered
    phase,      \* order(): the operation the relations were generated for
    order,      \* _genOrder: order
    last,       \* _genOrder: last
    scan_i,          \* separatePostLeafNodes: i
    scan_found,      \* separatePostLeafNodes: found
    ordered,    \* order(): order
    op_pos,          \* genOperations: position in order (1-based)
    pending,    \* genOperations: the _genEraseOps calls still to make for r
    operations, \* genOperations: operations
    hdr,        \* readPayload: the file tags of the rpm header, one record per file
    extract,    \* readPayload: extract (TRUE) or verify (FALSE)
    filenamehash,   \* readPayload: the files of the header not met in the cpio yet
    devinode,   \* readPayload: (dev, inode, md5sum) => indexes of the hardlinked files
    processed,  \* the files whose cpio record readCpio has handed to func
    disk,       \* extractCpio: the content at the final path of each file
    payload,    \* readPayload: payloadcompressor, payloadformat and owner of the package
    fd,         \* ReadRpm.fd: the package file, open or None
    decomp,     \* readPayload: the decompressor fd and the CPIO reader c
    errs,       \* the diagnostics printErr has printed
    fsops,      \* extractCpio: the filesystem calls of the last call, in order
    filenames_list, \* the FilenamesList: checkfileconflicts and path
    added,      \* how often each package is added to filenames_list at present
    file_i,     \* readRpm / the verify loop: position in the file names (1-based)
    read_rpms,  \* readRpm: rpms; the verify loop: the packages verifyRpm returned
    printed,    \* the diagnostics printed, each with the file it names
    inst,       \* the object whose methods are under test: its fields
    log         \* the calls made on inst so far, each with what it returned

pureVars == <<arg, res>>

orderVars == <<resolver, orderer, stack, relations, phase, order, last, scan_i, scan_found,
               ordered, op_pos, pending, operations>>

cpioVars == <<hdr, extract, filenamehash, devinode, processed, disk, payload, fd, decomp, errs,
              fsops>>

indexVars == <<filenames_list, added>>

batchVars == <<file_i, read_rpms, printed>>

instVars == <<inst, log>>

vars == <<arg, res, pc, resolver, orderer, stack, relations, phase, order, last, scan_i,
          scan_found, ordered, op_pos, pending, operations, hdr, extract, filenamehash,
          devinode, processed, disk, payload, fd, decomp, errs, fsops, filenames_list,
          added, file_i, read_rpms, printed, inst, log>>

\* res before the call has returned
NoRes == <<>>

\* no pure function is under test
PureIdle == arg = [fn |-> "none"] /\ res = NoRes

\* no orderer exists
OrderIdle ==
    /\ resolver = {}
    /\ orderer = [installs |-> <<>>, updates |-> <<>>, obsoletes |-> <<>>, erases |-> <<>>]
    /\ stack = <<>>
    /\ relations = [list |-> <<>>, hash |-> <<>>, dropped_relations |-> <<>>]
    /\ phase = "none"
    /\ order = <<>>
    /\ last = <<>>
    /\ scan_i = 0
    /\ scan_found = 0
    /\ ordered = <<>>
    /\ op_pos = 1
    /\ pending = <<>>
    /\ operations = <<>>

\* no payload is being read
CpioIdle ==
    /\ hdr = <<>>
    /\ extract = FALSE
    /\ filenamehash = {}
    /\ devinode = <<>>
    /\ processed = {}
    /\ disk = <<>>
    /\ payload = <<>>
    /\ fd = "None"
    /\ decomp = "none"
    /\ errs = {}
    /\ fsops = <<>>

\* no FilenamesList exists
IndexIdle == filenames_list = <<>> /\ added = <<>>

\* no batch of files is being read
BatchIdle == file_i = 0 /\ read_rpms = <<>> /\ printed = {}

\* no object is under test
InstIdle == inst = <<>> /\ log = <<>>

(***************************************************************************)
(* Character codes.                                                        *)
(***************************************************************************)
ChDash == 45
ChDot == 46
ChZero == 48
ChOne == 49
ChTwo == 50
ChColon == 58
ChA == 97

\* longest string of the stringCompare inputs
MaxStrLen == 3
\* longest version and release of the labelCompare inputs
MaxEvrLen == 2

\* all sequences over chars of length at most n
StrsUpTo(chars, n) == UNION {[1..k -> chars] : k \in 0..n}

(***************************************************************************)
(* Version comparator.                                                     *)
(***************************************************************************)
xisalpha(c) == (c >= 97 /\ c <= 122) \/ (c >= 65 /\ c <= 90)

xisdigit(c) == c >= 48 /\ c <= 57

xisalnum(c) == (c >= 97 /\ c <= 122) \/ (c >= 65 /\ c <= 90) \/ (c >= 48 /\ c <= 57)

\* the condition of one of stringCompare's inner while loops
InClass(k, c) ==
    CASE k = "sep" -> ~xisalnum(c)
      [] k = "digit" -> xisdigit(c)
      [] k = "alpha" -> xisalpha(c)
      [] k = "zero" -> c = ChZero

\* while i < lim and InClass(str[i]): i += 1
RECURSIVE ScanWhile(_, _, _, _)
ScanWhile(k, s, i, lim) ==
    IF i < lim /\ InClass(k, s[i + 1]) THEN ScanWhile(k, s, i + 1, lim) ELSE i

\* str[i:j]
Slice(s, i, j) == IF j <= i THEN <<>> ELSE SubSeq(s, i + 1, j)

\* cmp() of two strings: lexicographic by character code, -1, 0 or 1
RECURSIVE cmp(_, _)
cmp(a, b) ==
    IF a = <<>> THEN (IF b = <<>> THEN 0 ELSE -1)
    ELSE IF b = <<>> THEN 1
    ELSE IF Head(a) < Head(b) THEN -1
    ELSE IF Head(a) > Head(b) THEN 1
    ELSE cmp(Tail(a), Tail(b))

\* the while loop of stringCompare from (i1, i2), and the code after it
RECURSIVE stringCompareLoop(_, _, _, _)
stringCompareLoop(str1, str2, i1, i2) ==
    LET lenstr1 == Len(str1)
        lenstr2 == Len(str2)
    IN  IF i1 < lenstr1 /\ i2 < lenstr2
        THEN LET s1 == ScanWhile("sep", str1, i1, lenstr1)
                 s2 == ScanWhile("sep", str2, i2, lenstr2)
                 isnum == s1 < lenstr1 /\ xisdigit(str1[s1 + 1])
                 k == IF isnum THEN "digit" ELSE "alpha"
                 j1 == ScanWhile(k, str1, s1, lenstr1)
                 j2 == ScanWhile(k, str2, s2, lenstr2)
                 z1 == IF isnum THEN ScanWhile("zero", str1, s1, j1) ELSE s1
                 z2 == IF isnum THEN ScanWhile("zero", str2, s2, j2) ELSE s2
                 x == cmp(Slice(str1, z1, j1), Slice(str2, z2, j2))
             IN  IF j1 = s1 THEN -1
                 ELSE IF j2 = s2 THEN (IF isnum THEN 1 ELSE -1)
                 ELSE IF isnum /\ j1 - z1 > j2 - z2 THEN 1
                 ELSE IF isnum /\ j2 - z2 > j1 - z1 THEN -1
                 ELSE IF x # 0 THEN x
                 ELSE stringCompareLoop(str1, str2, j1, j2)
        ELSE IF i1 = lenstr1
             THEN (IF i2 = lenstr2 THEN 0 ELSE -1)
             ELSE 1

stringCompare(str1, str2) ==
    IF str1 = str2 THEN 0 ELSE stringCompareLoop(str1, str2, 0, 0)

\* labelCompare comparing the releases even when one of them is missing
labelCompareKeepRelease(e1, e2) ==
    LET r1 == stringCompare(e1[1], e2[1])
        r2 == stringCompare(e1[2], e2[2])
    IN  IF r1 # 0 THEN r1
        ELSE IF r2 # 0 THEN r2
        ELSE stringCompare(e1[3], e2[3])

\* labelCompare of (epoch, version, release) tuples
labelCompare(e1, e2) ==
    LET a == IF e2[3] = <<>> THEN <<e1[1], e1[2], <<>>>> ELSE e1
        b == IF e2[3] # <<>> /\ e1[3] = <<>> THEN <<e2[1], e2[2], <<>>>> ELSE e2
        r1 == stringCompare(a[1], b[1])
        r2 == stringCompare(a[2], b[2])
    IN  IF r1 # 0 THEN r1
        ELSE IF r2 # 0 THEN r2
        ELSE stringCompare(a[3], b[3])

(***************************************************************************)
(* The comparator under test: Init draws two strings or two EVR tuples,    *)
(* the call compares them in both argument orders.                         *)
(***************************************************************************)
CmpChars == {ChDot, ChZero, ChOne, ChA}

EvrChars == {ChDot, ChOne}

CmpStrs == StrsUpTo(CmpChars, MaxStrLen)

Epochs == {<<ChZero>>, <<ChOne>>, <<>>}

EvrStrs == StrsUpTo(EvrChars, MaxEvrLen)

EVRs == Epochs \X EvrStrs \X EvrStrs

InitCompare ==
    /\ arg \in [fn : {"stringCompare"}, a : CmpStrs, b : CmpStrs]
               \cup [fn : {"labelCompare"}, a : EVRs, b : EVRs]
    /\ res = NoRes
    /\ pc = "call"
    /\ OrderIdle
    /\ CpioIdle
    /\ IndexIdle
    /\ BatchIdle
    /\ InstIdle

CallStringCompare ==
    /\ arg.fn = "stringCompare"
    /\ pc = "call"
    /\ pc' = "ret"
    /\ res' = [fwd |-> stringCompare(arg.a, arg.b), rev |-> stringCompare(arg.b, arg.a)]
    /\ UNCHANGED arg
    /\ UNCHANGED orderVars
    /\ UNCHANGED cpioVars
    /\ UNCHANGED <<indexVars, batchVars, instVars>>

CallLabelCompare ==
    /\ arg.fn = "labelCompare"
    /\ pc = "call"
    /\ pc' = "ret"
    /\ res' = [fwd |-> labelCompare(arg.a, arg.b), rev |-> labelCompare(arg.b, arg.a)]
    /\ UNCHANGED arg
    /\ UNCHANGED orderVars
    /\ UNCHANGED cpioVars
    /\ UNCHANGED <<indexVars, batchVars, instVars>>

NextCompare == CallStringCompare \/ CallLabelCompare

SpecCompare == InitCompare /\ [][NextCompare]_vars

(***************************************************************************)
(* Sense flags.  A flag word is an integer; & and | are computed bit by    *)
(* bit.                                                                    *)
(***************************************************************************)
RECURSIVE BitAnd(_, _)
BitAnd(x, y) ==
    IF x = 0 \/ y = 0 THEN 0
    ELSE (x % 2) * (y % 2) + 2 * BitAnd(x \div 2, y \div 2)

RECURSIVE BitOr(_, _)
BitOr(x, y) ==
    IF x = 0 THEN y
    ELSE IF y = 0 THEN x
    ELSE (IF x % 2 = 1 \/ y % 2 = 1 THEN 1 ELSE 0) + 2 * BitOr(x \div 2, y \div 2)

RECURSIVE BitOrAll(_)
BitOrAll(S) ==
    IF S = {} THEN 0
    ELSE LET x == CHOOSE x \in S : TRUE IN BitOr(x, BitOrAll(S \ {x}))

RPMSENSE_LESS == 2 ^ 1
RPMSENSE_GREATER == 2 ^ 2
RPMSENSE_EQUAL == 2 ^ 3
RPMSENSE_PREREQ == 2 ^ 6
RPMSENSE_INTERP == 2 ^ 8
RPMSENSE_SCRIPT_PRE == BitOr(2 ^ 9, RPMSENSE_PREREQ)
RPMSENSE_SCRIPT_POST == BitOr(2 ^ 10, RPMSENSE_PREREQ)
RPMSENSE_SCRIPT_PREUN == BitOr(2 ^ 11, RPMSENSE_PREREQ)
RPMSENSE_SCRIPT_POSTUN == BitOr(2 ^ 12, RPMSENSE_PREREQ)
RPMSENSE_SCRIPT_VERIFY == 2 ^ 13
RPMSENSE_FIND_REQUIRES == 2 ^ 14
RPMSENSE_SCRIPT_PREP == 2 ^ 20
RPMSENSE_SCRIPT_BUILD == 2 ^ 21
RPMSENSE_SCRIPT_INSTALL == 2 ^ 22
RPMSENSE_SCRIPT_CLEAN == 2 ^ 23
RPMSENSE_RPMLIB == BitOr(2 ^ 24, RPMSENSE_PREREQ)
RPMSENSE_KEYRING == 2 ^ 26

ALL_REQUIRES_MASK ==
    BitOrAll({RPMSENSE_INTERP, RPMSENSE_SCRIPT_PRE, RPMSENSE_SCRIPT_POST,
              RPMSENSE_SCRIPT_PREUN, RPMSENSE_SCRIPT_POSTUN, RPMSENSE_SCRIPT_VERIFY,
              RPMSENSE_FIND_REQUIRES, RPMSENSE_SCRIPT_PREP, RPMSENSE_SCRIPT_BUILD,
              RPMSENSE_SCRIPT_INSTALL, RPMSENSE_SCRIPT_CLEAN, RPMSENSE_RPMLIB,
              RPMSENSE_KEYRING})

\* x & ~RPMSENSE_PREREQ
notpre(x) == x - BitAnd(x, RPMSENSE_PREREQ)

INSTALL_ONLY_MASK ==
    notpre(BitOrAll({RPMSENSE_SCRIPT_PRE, RPMSENSE_SCRIPT_POST, RPMSENSE_RPMLIB,
                     RPMSENSE_KEYRING}))

ERASE_ONLY_MASK == notpre(BitOr(RPMSENSE_SCRIPT_PREUN, RPMSENSE_SCRIPT_POSTUN))

isLegacyPreReq(x) == BitAnd(x, ALL_REQUIRES_MASK) = RPMSENSE_PREREQ

isInstallPreReq(x) == BitAnd(x, INSTALL_ONLY_MASK) # 0

isErasePreReq(x) == BitAnd(x, ERASE_ONLY_MASK) # 0

SOFT == 0
HARD == 1
VIRTUAL == 2

OP_INSTALL == "install"
OP_UPDATE == "update"
OP_ERASE == "erase"

\* operationFlag taking the install-only bits as hard during erase too
operationFlagAnyOperation(flag, operation) ==
    IF \/ isLegacyPreReq(flag)
       \/ (operation = OP_ERASE /\ isErasePreReq(flag))
       \/ isInstallPreReq(flag)
    THEN HARD
    ELSE SOFT

operationFlag(flag, operation) ==
    IF \/ isLegacyPreReq(flag)
       \/ (operation = OP_ERASE /\ isErasePreReq(flag))
       \/ (operation # OP_ERASE /\ isInstallPreReq(flag))
    THEN HARD
    ELSE SOFT

(***************************************************************************)
(* Range intersection and the provides lookup.                             *)
(***************************************************************************)
\* rangeCompare taking equal versions to intersect only on EQUAL
rangeCompareEqualOnly(flag1, evr1, flag2, evr2) ==
    LET sense == labelCompare(evr1, evr2)
    IN  IF sense < 0
        THEN (IF BitAnd(flag1, RPMSENSE_GREATER) # 0 \/ BitAnd(flag2, RPMSENSE_LESS) # 0
              THEN 1 ELSE 0)
        ELSE IF sense > 0
        THEN (IF BitAnd(flag1, RPMSENSE_LESS) # 0 \/ BitAnd(flag2, RPMSENSE_GREATER) # 0
              THEN 1 ELSE 0)
        ELSE (IF BitAnd(flag1, RPMSENSE_EQUAL) # 0 /\ BitAnd(flag2, RPMSENSE_EQUAL) # 0
              THEN 1 ELSE 0)

rangeCompare(flag1, evr1, flag2, evr2) ==
    LET sense == labelCompare(evr1, evr2)
    IN  IF sense < 0
        THEN (IF BitAnd(flag1, RPMSENSE_GREATER) # 0 \/ BitAnd(flag2, RPMSENSE_LESS) # 0
              THEN 1 ELSE 0)
        ELSE IF sense > 0
        THEN (IF BitAnd(flag1, RPMSENSE_LESS) # 0 \/ BitAnd(flag2, RPMSENSE_GREATER) # 0
              THEN 1 ELSE 0)
        ELSE (IF \/ (BitAnd(flag1, RPMSENSE_EQUAL) # 0 /\ BitAnd(flag2, RPMSENSE_EQUAL) # 0)
                 \/ (BitAnd(flag1, RPMSENSE_LESS) # 0 /\ BitAnd(flag2, RPMSENSE_LESS) # 0)
                 \/ (BitAnd(flag1, RPMSENSE_GREATER) # 0 /\ BitAnd(flag2, RPMSENSE_GREATER) # 0)
              THEN 1 ELSE 0)

\* s.find(c, start): the 0-based index of the first c at or after start, or -1
RECURSIVE Find(_, _, _)
Find(s, c, start) ==
    IF start >= Len(s) THEN -1
    ELSE IF s[start + 1] = c THEN start
    ELSE Find(s, c, start + 1)

\* evrSplit looking for the first "-" of the whole string
evrSplitDashAnywhere(evr) ==
    LET i == Find(evr, ChColon, 0)
        epoch == IF i # -1 THEN Slice(evr, 0, i) ELSE <<ChZero>>
        j == Find(evr, ChDash, 0)
    IN  IF j # -1
        THEN <<epoch, Slice(evr, i + 1, j), Slice(evr, j + 1, Len(evr))>>
        ELSE <<epoch, Slice(evr, i + 1, Len(evr)), <<>>>>

evrSplit(evr) ==
    LET i == Find(evr, ChColon, 0)
        epoch == IF i # -1 THEN Slice(evr, 0, i) ELSE <<ChZero>>
        j == Find(evr, ChDash, i + 1)
    IN  IF j # -1
        THEN <<epoch, Slice(evr, i + 1, j), Slice(evr, j + 1, Len(evr))>>
        ELSE <<epoch, Slice(evr, i + 1, Len(evr)), <<>>>>

\* rpm in ret
InSeq(x, s) == \E k \in 1..Len(s) : s[k] = x

\* the for loop of searchDependency over the entries (f, v, rpm) from entry k on
RECURSIVE searchDependencyLoop(_, _, _, _, _)
searchDependencyLoop(flag, version, deps, k, ret) ==
    IF k > Len(deps) THEN ret
    ELSE LET f == deps[k][1]
             v == deps[k][2]
             rpm == deps[k][3]
         IN  IF InSeq(rpm, ret)
             THEN searchDependencyLoop(flag, version, deps, k + 1, ret)
             ELSE IF version = <<>> \/ rangeCompare(flag, evrSplit(version), f, evrSplit(v)) # 0
             THEN searchDependencyLoop(flag, version, deps, k + 1, Append(ret, rpm))
             ELSE IF v = <<>>
             THEN searchDependencyLoop(flag, version, deps, k + 1, Append(ret, rpm))
             ELSE searchDependencyLoop(flag, version, deps, k + 1, ret)

\* the loop without the branch that accepts an unversioned provide
RECURSIVE searchDependencyLoopVersioned(_, _, _, _, _)
searchDependencyLoopVersioned(flag, version, deps, k, ret) ==
    IF k > Len(deps) THEN ret
    ELSE LET f == deps[k][1]
             v == deps[k][2]
             rpm == deps[k][3]
         IN  IF InSeq(rpm, ret)
             THEN searchDependencyLoopVersioned(flag, version, deps, k + 1, ret)
             ELSE IF version = <<>> \/ rangeCompare(flag, evrSplit(version), f, evrSplit(v)) # 0
             THEN searchDependencyLoopVersioned(flag, version, deps, k + 1, Append(ret, rpm))
             ELSE searchDependencyLoopVersioned(flag, version, deps, k + 1, ret)

searchDependencyVersioned(name, flag, version, mydeps) ==
    LET deps == IF name \in DOMAIN mydeps THEN mydeps[name] ELSE <<>>
    IN  IF deps = <<>> THEN <<>>
        ELSE searchDependencyLoopVersioned(flag, version, deps, 1, <<>>)

\* mydeps maps the names it knows to their entry lists; version is a string
searchDependency(name, flag, version, mydeps) ==
    LET deps == IF name \in DOMAIN mydeps THEN mydeps[name] ELSE <<>>
    IN  IF deps = <<>> THEN <<>>
        ELSE searchDependencyLoop(flag, version, deps, 1, <<>>)

(***************************************************************************)
(* The flag and lookup functions under test: Init draws the arguments of   *)
(* one call.                                                               *)
(***************************************************************************)
\* most entries under one name of the provides table
MaxProvides == 2

\* the flag words of the operationFlag inputs: every combination of these bits
OpFlagBits == {2 ^ 3, 2 ^ 6, 2 ^ 8, 2 ^ 9, 2 ^ 10, 2 ^ 11, 2 ^ 12, 2 ^ 13, 2 ^ 24, 2 ^ 26}

OpFlags == {BitOrAll(S) : S \in SUBSET OpFlagBits}

Operations == {OP_INSTALL, OP_UPDATE, OP_ERASE}

\* flag words with at least one of LESS, GREATER, EQUAL
SenseFlags ==
    {BitOrAll(S) : S \in (SUBSET {RPMSENSE_LESS, RPMSENSE_GREATER, RPMSENSE_EQUAL}) \ {{}}}

RangeEVRs ==
    {<<ChZero>>, <<ChOne>>} \X {<<ChOne>>, <<ChTwo>>} \X {<<>>, <<ChZero>>, <<ChOne>>}

\* "", "1", "2", "0:1-1"
QueryVersions == {<<>>, <<ChOne>>, <<ChTwo>>, <<ChZero, ChColon, ChOne, ChDash, ChOne>>}

QueryFlags == {RPMSENSE_EQUAL, RPMSENSE_LESS, BitOr(RPMSENSE_GREATER, RPMSENSE_EQUAL)}

\* (flag, version) of the provides: unversioned, = 1, = 1:1-1, < 2
ProvideSenses ==
    {<<0, <<>>>>, <<RPMSENSE_EQUAL, <<ChOne>>>>,
     <<RPMSENSE_EQUAL, <<ChOne, ChColon, ChOne, ChDash, ChOne>>>>,
     <<RPMSENSE_LESS, <<ChTwo>>>>}

Owners == {"p1", "p2"}

ProvideEntries == {<<fv[1], fv[2], o>> : fv \in ProvideSenses, o \in Owners}

\* the provides table knows only the name "n"
ProvideTables == {[n |-> l] : l \in UNION {[1..k -> ProvideEntries] : k \in 0..MaxProvides}}

InitDeps ==
    /\ arg \in [fn : {"operationFlag"}, flag : OpFlags, operation : Operations]
               \cup [fn : {"rangeCompare"}, flag1 : SenseFlags, evr1 : RangeEVRs,
                     flag2 : SenseFlags, evr2 : RangeEVRs]
               \cup [fn : {"searchDependency"}, name : {"n", "m"}, flag : QueryFlags,
                     version : QueryVersions, provides : ProvideTables]
    /\ res = NoRes
    /\ pc = "call"
    /\ OrderIdle
    /\ CpioIdle
    /\ IndexIdle
    /\ BatchIdle
    /\ InstIdle

CallOperationFlag ==
    /\ arg.fn = "operationFlag"
    /\ pc = "call"
    /\ pc' = "ret"
    /\ res' = operationFlag(arg.flag, arg.operation)
    /\ UNCHANGED arg
    /\ UNCHANGED orderVars
    /\ UNCHANGED cpioVars
    /\ UNCHANGED <<indexVars, batchVars, instVars>>

CallRangeCompare ==
    /\ arg.fn = "rangeCompare"
    /\ pc = "call"
    /\ pc' = "ret"
    /\ res' = rangeCompare(arg.flag1, arg.evr1, arg.flag2, arg.evr2)
    /\ UNCHANGED arg
    /\ UNCHANGED orderVars
    /\ UNCHANGED cpioVars
    /\ UNCHANGED <<indexVars, batchVars, instVars>>

CallSearchDependency ==
    /\ arg.fn = "searchDependency"
    /\ pc = "call"
    /\ pc' = "ret"
    /\ res' = searchDependency(arg.name, arg.flag, arg.version, arg.provides)
    /\ UNCHANGED arg
    /\ UNCHANGED orderVars
    /\ UNCHANGED cpioVars
    /\ UNCHANGED <<indexVars, batchVars, instVars>>

NextDeps == CallOperationFlag \/ CallRangeCompare \/ CallSearchDependency

SpecDeps == InitDeps /\ [][NextDeps]_vars

(***************************************************************************)
(* Transaction orderer: the dependency graph.                              *)
(*                                                                         *)
(* An RpmRelations object is a record: list and hash are the two halves    *)
(* of its HashList (the packages in insertion order, and the Relation of   *)
(* each package with its pre and post dictionaries), dropped_relations     *)
(* maps a package to the list of requirements dropped from it.  A          *)
(* dictionary is a function on its keys.  A loop over a dictionary visits  *)
(* its keys in an order that depends on the hash values of the keys (the   *)
(* addresses of the package objects, the hash of a tuple of them): where   *)
(* the outcome depends on it, every order is a possible outcome.           *)
(***************************************************************************)
None == "None"

DictDel(d, k) == [x \in DOMAIN d \ {k} |-> d[x]]

DictSet(d, k, v) == [x \in DOMAIN d \cup {k} |-> IF x = k THEN v ELSE d[x]]

EmptyDict == <<>>

\* list.remove(x)
RECURSIVE SeqRemove(_, _)
SeqRemove(s, x) ==
    IF s = <<>> THEN <<>>
    ELSE IF Head(s) = x THEN Tail(s)
    ELSE <<Head(s)>> \o SeqRemove(Tail(s), x)

SeqToSet(s) == {s[n] : n \in 1..Len(s)}

RECURSIVE SeqReverse(_)
SeqReverse(s) == IF s = <<>> THEN <<>> ELSE Append(SeqReverse(Tail(s)), Head(s))

\* RpmRelations(rpms): a Relation for each package, a package listed twice once
RECURSIVE NewHashList(_, _)
NewHashList(rpms, acc) ==
    IF rpms = <<>> THEN acc
    ELSE NewHashList(Tail(rpms),
                     IF InSeq(Head(rpms), acc) THEN acc ELSE Append(acc, Head(rpms)))

RpmRelations(rpms) ==
    LET l == NewHashList(rpms, <<>>)
    IN  [list |-> l,
         hash |-> [p \in SeqToSet(l) |-> [pre |-> EmptyDict, post |-> EmptyDict]],
         dropped_relations |-> EmptyDict]

\* the del statements of removeRelation find their keys
removeRelationKeys(R, pkg) ==
    /\ \A r \in DOMAIN R.hash[pkg].pre : r \in DOMAIN R.hash /\ pkg \in DOMAIN R.hash[r].post
    /\ \A r \in DOMAIN R.hash[pkg].post : r \in DOMAIN R.hash /\ pkg \in DOMAIN R.hash[r].pre

\* removeRelation without its first loop: the post of the packages that pkg
\* requires keep pkg
removeRelationKeepPost(R, pkg) ==
    LET rel == R.hash[pkg]
    IN  [R EXCEPT
            !.hash = [q \in DOMAIN R.hash \ {pkg} |->
                        [pre |-> IF q \in DOMAIN rel.post
                                 THEN DictDel(R.hash[q].pre, pkg) ELSE R.hash[q].pre,
                         post |-> R.hash[q].post]],
            !.list = SeqRemove(R.list, pkg)]

removeRelation(R, pkg) ==
    LET rel == R.hash[pkg]
    IN  [R EXCEPT
            !.hash = [q \in DOMAIN R.hash \ {pkg} |->
                        [pre |-> IF q \in DOMAIN rel.post
                                 THEN DictDel(R.hash[q].pre, pkg) ELSE R.hash[q].pre,
                         post |-> IF q \in DOMAIN rel.pre
                                  THEN DictDel(R.hash[q].post, pkg) ELSE R.hash[q].post]],
            !.list = SeqRemove(R.list, pkg)]

\* getNextLeafNode's choice over the packages from position n on (1-based):
\* the first package with no pre and the most post, or "None"
RECURSIVE getNextLeafNodeScan(_, _, _, _)
getNextLeafNodeScan(R, n, next, next_post_len) ==
    IF n > Len(R.list) THEN next
    ELSE LET pkg == R.list[n]
             rel == R.hash[pkg]
         IN  IF DOMAIN rel.pre = {} /\ Cardinality(DOMAIN rel.post) > next_post_len
             THEN getNextLeafNodeScan(R, n + 1, pkg, Cardinality(DOMAIN rel.post))
             ELSE getNextLeafNodeScan(R, n + 1, next, next_post_len)

\* getNextLeafNode taking the first package with the most post, a package with
\* pre as well
RECURSIVE getNextLeafNodeAnyPreScan(_, _, _, _)
getNextLeafNodeAnyPreScan(R, n, next, next_post_len) ==
    IF n > Len(R.list) THEN next
    ELSE LET pkg == R.list[n]
             rel == R.hash[pkg]
         IN  IF Cardinality(DOMAIN rel.post) > next_post_len
             THEN getNextLeafNodeAnyPreScan(R, n + 1, pkg, Cardinality(DOMAIN rel.post))
             ELSE getNextLeafNodeAnyPreScan(R, n + 1, next, next_post_len)

getNextLeafNodeAnyPre(R) == getNextLeafNodeAnyPreScan(R, 1, None, -1)

getNextLeafNode(R) == getNextLeafNodeScan(R, 1, None, -1)

\* path.index(p), 1-based
RECURSIVE SeqIndex(_, _)
SeqIndex(s, x) == IF Head(s) = x THEN 1 ELSE 1 + SeqIndex(Tail(s), x)

\* _detectLoops: the possible (loops, used) after the walk from pkg, one for
\* each order in which the for loops visit the keys of the pre dictionaries.
\* st is [loops |-> list of loop tuples, used |-> set of visited packages];
\* todo is the part of self[pkg].pre the for loop has not visited yet.
RECURSIVE detectLoopsFor(_, _, _, _, _)
RECURSIVE detectLoopsWalk(_, _, _, _)
detectLoopsFor(R, path, pkg, todo, st) ==
    IF todo = {} THEN {st}
    ELSE UNION {
        LET after ==
                IF InSeq(p, path)
                THEN {[st EXCEPT !.loops =
                         Append(@, SubSeq(path, SeqIndex(path, p), Len(path)) \o <<pkg, p>>)]}
                ELSE IF p \notin st.used
                THEN detectLoopsWalk(R, Append(path, pkg), p, st)
                ELSE {st}
        IN  UNION {detectLoopsFor(R, path, pkg, todo \ {p}, st2) : st2 \in after}
        : p \in todo}

detectLoopsWalk(R, path, pkg, st) ==
    detectLoopsFor(R, path, pkg, DOMAIN R.hash[pkg].pre, [st EXCEPT !.used = @ \cup {pkg}])

\* detectLoops: the for loop over the packages from position n on
RECURSIVE detectLoopsFrom(_, _, _)
detectLoopsFrom(R, n, sts) ==
    IF n > Len(R.list) THEN sts
    ELSE detectLoopsFrom(R, n + 1,
            UNION {IF R.list[n] \notin st.used
                   THEN detectLoopsWalk(R, <<>>, R.list[n], st)
                   ELSE {st} : st \in sts})

\* the lists of loops detectLoops can return
detectLoops(R) == {st.loops : st \in detectLoopsFrom(R, 1, {[loops |-> <<>>, used |-> {}]})}

\* genCounter: counter[node][next], the number of times the arc is in the loops
genCounter(loops, node, next) ==
    Cardinality({lj \in UNION {{<<l, j>> : j \in 1..(Len(loops[l]) - 1)} : l \in 1..Len(loops)} :
                    /\ loops[lj[1]][lj[2]] = node
                    /\ loops[lj[1]][lj[2] + 1] = next})

\* the for loop of _breakupLoop from arc j on; m is the record of the six
\* virt_max_count* and max_count* variables
RECURSIVE breakupLoopScan(_, _, _, _, _, _)
breakupLoopScan(R, loops, loop, hard, j, m) ==
    IF j > Len(loop) - 1 THEN m
    ELSE LET node == loop[j]
             next == loop[j + 1]
             flag == R.hash[node].pre[next]
             count == genCounter(loops, node, next)
         IN  IF hard = 0 /\ BitAnd(flag, HARD) # 0
             THEN breakupLoopScan(R, loops, loop, hard, j + 1, m)
             ELSE IF BitAnd(flag, VIRTUAL) # 0
             THEN breakupLoopScan(R, loops, loop, hard, j + 1,
                      IF m.virt_max_count < count
                      THEN [m EXCEPT !.virt_max_count_node = node,
                                     !.virt_max_count_next = next,
                                     !.virt_max_count = count]
                      ELSE m)
             ELSE breakupLoopScan(R, loops, loop, hard, j + 1,
                      IF m.max_count < count
                      THEN [m EXCEPT !.max_count_node = node,
                                     !.max_count_next = next,
                                     !.max_count = count]
                      ELSE m)

\* _breakupLoop found no arc to drop (it returns 0)
NoArc == <<>>

\* _breakupLoop that prefers the plain arc to the virtual one
breakupLoopArcPlainFirst(R, loops, loop, hard) ==
    LET m == breakupLoopScan(R, loops, loop, hard, 1,
                 [virt_max_count_node |-> None, virt_max_count_next |-> None,
                  virt_max_count |-> 0,
                  max_count_node |-> None, max_count_next |-> None, max_count |-> 0])
    IN  IF m.max_count_node # None
        THEN <<m.max_count_node, m.max_count_next>>
        ELSE IF m.virt_max_count_node # None
        THEN <<m.virt_max_count_node, m.virt_max_count_next>>
        ELSE NoArc

\* _breakupLoop: the arc <<node, next>> it passes to _dropRelation, or NoArc
breakupLoopArc(R, loops, loop, hard) ==
    LET m == breakupLoopScan(R, loops, loop, hard, 1,
                 [virt_max_count_node |-> None, virt_max_count_next |-> None,
                  virt_max_count |-> 0,
                  max_count_node |-> None, max_count_next |-> None, max_count |-> 0])
    IN  IF m.virt_max_count_node # None
        THEN <<m.virt_max_count_node, m.virt_max_count_next>>
        ELSE IF m.max_count_node # None
        THEN <<m.max_count_node, m.max_count_next>>
        ELSE NoArc

\* breakupLoop: the soft pass, then the hard pass
breakupLoop(R, loops, loop) ==
    IF breakupLoopArc(R, loops, loop, 0) # NoArc
    THEN breakupLoopArc(R, loops, loop, 0)
    ELSE breakupLoopArc(R, loops, loop, 1)

\* _dropRelation whose new arcs are HARD whenever the dropped arc was
dropRelationInheritHard(R, node, next) ==
    LET hard == BitAnd(R.hash[node].pre[next], HARD)
        h1 == [R.hash EXCEPT ![node].pre = DictDel(@, next),
                             ![next].post = DictDel(@, node)]
        d1 == DictSet(R.dropped_relations, node,
                      Append(IF node \in DOMAIN R.dropped_relations
                             THEN R.dropped_relations[node] ELSE <<>>, next))
        \* the packages p of the for loop that reach the two if statements
        P == {p \in DOMAIN h1[node].post :
                /\ p # next
                /\ p # node
                /\ ~(p \in DOMAIN d1 /\ InSeq(next, d1[p]))}
        req(p) == IF hard # 0 THEN HARD ELSE SOFT
    IN  [R EXCEPT
            !.dropped_relations = d1,
            !.hash = [q \in DOMAIN h1 |->
                        [pre |-> IF q \in P /\ next \notin DOMAIN h1[q].pre
                                 THEN DictSet(h1[q].pre, next, BitOr(VIRTUAL, req(q)))
                                 ELSE h1[q].pre,
                         post |-> IF q = next
                                  THEN [x \in DOMAIN h1[q].post \cup P |->
                                          IF x \in DOMAIN h1[q].post
                                          THEN h1[q].post[x] ELSE VIRTUAL]
                                  ELSE h1[q].post]]]

\* _dropRelation adding the virtual arc of a package also when that arc was
\* dropped before
dropRelationAddDropped(R, node, next) ==
    LET hard == BitAnd(R.hash[node].pre[next], HARD)
        h1 == [R.hash EXCEPT ![node].pre = DictDel(@, next),
                             ![next].post = DictDel(@, node)]
        d1 == DictSet(R.dropped_relations, node,
                      Append(IF node \in DOMAIN R.dropped_relations
                             THEN R.dropped_relations[node] ELSE <<>>, next))
        P == {p \in DOMAIN h1[node].post : p # next /\ p # node}
        req(p) == IF hard # 0 /\ BitAnd(h1[p].pre[node], HARD) # 0 THEN HARD ELSE SOFT
    IN  [R EXCEPT
            !.dropped_relations = d1,
            !.hash = [q \in DOMAIN h1 |->
                        [pre |-> IF q \in P /\ next \notin DOMAIN h1[q].pre
                                 THEN DictSet(h1[q].pre, next, BitOr(VIRTUAL, req(q)))
                                 ELSE h1[q].pre,
                         post |-> IF q = next
                                  THEN [x \in DOMAIN h1[q].post \cup P |->
                                          IF x \in DOMAIN h1[q].post
                                          THEN h1[q].post[x] ELSE VIRTUAL]
                                  ELSE h1[q].post]]]

\* _dropRelation
dropRelation(R, node, next) ==
    LET hard == BitAnd(R.hash[node].pre[next], HARD)
        h1 == [R.hash EXCEPT ![node].pre = DictDel(@, next),
                             ![next].post = DictDel(@, node)]
        d1 == DictSet(R.dropped_relations, node,
                      Append(IF node \in DOMAIN R.dropped_relations
                             THEN R.dropped_relations[node] ELSE <<>>, next))
        \* the packages p of the for loop that reach the two if statements
        P == {p \in DOMAIN h1[node].post :
                /\ p # next
                /\ p # node
                /\ ~(p \in DOMAIN d1 /\ InSeq(next, d1[p]))}
        req(p) == IF hard # 0 /\ BitAnd(h1[p].pre[node], HARD) # 0 THEN HARD ELSE SOFT
    IN  [R EXCEPT
            !.dropped_relations = d1,
            !.hash = [q \in DOMAIN h1 |->
                        [pre |-> IF q \in P /\ next \notin DOMAIN h1[q].pre
                                 THEN DictSet(h1[q].pre, next, BitOr(VIRTUAL, req(q)))
                                 ELSE h1[q].pre,
                         post |-> IF q = next
                                  THEN [x \in DOMAIN h1[q].post \cup P |->
                                          IF x \in DOMAIN h1[q].post
                                          THEN h1[q].post[x] ELSE VIRTUAL]
                                  ELSE h1[q].post]]]

\* the packages of a loop tuple, without its repeated last element
LoopPkgs(loop) == {loop[j] : j \in 1..(Len(loop) - 1)}

\* sortLoops: loop_relations[loop] and loop_requires[loop]
loop_relations(R, loops, loop) ==
    LET loop_nodes == UNION {LoopPkgs(loops[l]) : l \in 1..Len(loops)}
    IN  Cardinality({a \in UNION {{<<j, p>> : p \in DOMAIN R.hash[loop[j]].pre}
                                     : j \in 1..(Len(loop) - 1)} :
                        a[2] \in loop_nodes /\ ~InSeq(a[2], loop)})

loop_requires(R, loop) ==
    Cardinality({a \in UNION {{<<j, p>> : p \in DOMAIN R.hash[loop[j]].post}
                                 : j \in 1..(Len(loop) - 1)} :
                    ~InSeq(a[2], loop)})

\* the position (1-based) at which sortLoops inserts loop into mysorted
RECURSIVE sortLoopsPlace(_, _, _, _, _)
sortLoopsPlace(R, loops, mysorted, loop, n) ==
    IF n > Len(mysorted) THEN n
    ELSE IF \/ loop_relations(R, loops, loop) < loop_relations(R, loops, mysorted[n])
            \/ /\ loop_relations(R, loops, loop) = loop_relations(R, loops, mysorted[n])
               /\ loop_requires(R, loop) > loop_requires(R, mysorted[n])
    THEN n
    ELSE sortLoopsPlace(R, loops, mysorted, loop, n + 1)

\* sortLoops with the keys of loop_relations visited in the order of keys
RECURSIVE sortLoopsInsert(_, _, _, _)
sortLoopsInsert(R, loops, keys, mysorted) ==
    IF keys = <<>> THEN mysorted
    ELSE LET n == sortLoopsPlace(R, loops, mysorted, Head(keys), 1)
         IN  sortLoopsInsert(R, loops, Tail(keys),
                 SubSeq(mysorted, 1, n - 1) \o <<Head(keys)>>
                     \o SubSeq(mysorted, n, Len(mysorted)))

\* the orders in which a dictionary with the keys S can be visited
RECURSIVE KeyOrders(_)
KeyOrders(S) ==
    IF S = {} THEN {<<>>}
    ELSE UNION {{<<x>> \o t : t \in KeyOrders(S \ {x})} : x \in S}

\* the lists sortLoops can return
sortLoops(R, loops) ==
    {sortLoopsInsert(R, loops, keys, <<>>) : keys \in KeyOrders(SeqToSet(loops))}

(***************************************************************************)
(* Transaction orderer: RpmOrderer.                                        *)
(*                                                                         *)
(* The resolver is the set of its requirements that genRelations does not  *)
(* skip: for each key (n, f, v) of resolver.requires_list the flag f, the  *)
(* packages rpms that require it and the packages resolved that            *)
(* resolver.searchDependency(n, f, v) returns.                             *)
(***************************************************************************)
\* the flat list of the packages in the lists of a dictionary
RECURSIVE Displaced(_)
Displaced(d) ==
    IF DOMAIN d = {} THEN <<>>
    ELSE LET x == CHOOSE x \in DOMAIN d : TRUE IN d[x] \o Displaced(DictDel(d, x))

\* for p in ps: if p in erases: erases.remove(p)
RECURSIVE RemoveEach(_, _)
RemoveEach(erases, ps) ==
    IF ps = <<>> THEN erases
    ELSE RemoveEach(IF InSeq(Head(ps), erases) THEN SeqRemove(erases, Head(ps)) ELSE erases,
                    Tail(ps))

\* RpmOrderer.__init__ without the two loops that take the updated and the
\* obsoleted packages out of erases
RpmOrdererKeepErases(installs, updates, obsoletes, erases) ==
    [installs |-> installs,
     updates |-> updates,
     obsoletes |-> obsoletes,
     erases |-> erases]

\* RpmOrderer.__init__
RpmOrderer(installs, updates, obsoletes, erases) ==
    [installs |-> installs,
     updates |-> updates,
     obsoletes |-> obsoletes,
     erases |-> RemoveEach(RemoveEach(erases, Displaced(updates)), Displaced(obsoletes))]

\* the arcs <<pkg, pre>> a requirement asks genRelations to add
ReqArcs(req) == {a \in (req.rpms \ req.resolved) \X req.resolved : TRUE}

\* genRelations reaches relations.list[x] for a package that is not in rpms: the
\* HashList returns None and the access to its pre or post raises AttributeError
genRelationsRaises(rpms, reqs) ==
    \E req \in reqs : \E a \in ReqArcs(req) :
        ~InSeq(a[1], rpms) \/ \E pre \in req.resolved : ~InSeq(pre, rpms)

\* the body of the two inner for loops for one pkg and one pre
genRelationsArc(R, pkg, pre, f2) ==
    IF BitAnd(f2, HARD) # 0 \/ pre \notin DOMAIN R.hash[pkg].pre
    THEN [R EXCEPT !.hash[pkg].pre = DictSet(@, pre, f2),
                   !.hash[pre].post = DictSet(@, pkg, 1)]
    ELSE R

RECURSIVE genRelationsArcs(_, _, _)
genRelationsArcs(R, arcs, f2) ==
    IF arcs = {} THEN R
    ELSE LET a == CHOOSE a \in arcs : TRUE
         IN  genRelationsArcs(genRelationsArc(R, a[1], a[2], f2), arcs \ {a}, f2)

\* the for loop over the keys of resolver.requires_list; the relations it builds
\* do not depend on the order of the keys
RECURSIVE genRelationsKeys(_, _, _)
genRelationsKeys(R, reqs, operation) ==
    IF reqs = {} THEN R
    ELSE LET req == CHOOSE req \in reqs : TRUE
         IN  genRelationsKeys(
                 genRelationsArcs(R, ReqArcs(req), operationFlag(req.f, operation)),
                 reqs \ {req}, operation)

genRelations(rpms, operation, reqs) == genRelationsKeys(RpmRelations(rpms), reqs, operation)

\* order(): what follows the install part, and what follows the erase part
AfterInstalls(o) == IF o.erases # <<>> THEN "genRelations" ELSE "genOperations"

StartOrder(o) == IF o.installs # <<>> THEN "genRelations" ELSE AfterInstalls(o)

StartPhase(o) == IF o.installs # <<>> THEN OP_INSTALL ELSE OP_ERASE

\* order() returns None; the caller in genOperations extends a list with it
ReturnNone == IF stack = <<>> THEN "None" ELSE "raised"

GenRelations ==
    /\ pc = "genRelations"
    /\ LET rpms == IF phase = OP_INSTALL THEN orderer.installs ELSE orderer.erases
       IN  IF genRelationsRaises(rpms, resolver)
           THEN /\ pc' = "raised"
                /\ UNCHANGED relations
           ELSE /\ pc' = "separate"
                /\ relations' = genRelations(rpms, phase, resolver)
    /\ order' = <<>>
    /\ last' = <<>>
    /\ scan_i' = 0
    /\ scan_found' = 0
    /\ UNCHANGED <<resolver, orderer, stack, phase, ordered, op_pos, pending, operations>>
    /\ UNCHANGED pureVars
    /\ UNCHANGED cpioVars
    /\ UNCHANGED <<indexVars, batchVars, instVars>>

\* the position (0-based) of the first package at or after n without post, or -1
RECURSIVE PostLeafFrom(_, _)
PostLeafFrom(R, n) ==
    IF n >= Len(R.list) THEN -1
    ELSE IF DOMAIN R.hash[R.list[n + 1]].post = {} THEN n
    ELSE PostLeafFrom(R, n + 1)

\* last.append(pkg)
InsertBack(l, pkg) == Append(l, pkg)

\* last.insert(0, pkg)
InsertFront(l, pkg) == <<pkg>> \o l

\* separatePostLeafNodes up to its next removeRelation: the inner while loop
\* moves the next package without post to the front of last; when it finds
\* none the outer loop starts over, or ends if the last pass scan_found nothing or
\* the graph is empty
SeparatePostLeafNodes ==
    /\ pc = "separate"
    /\ LET j == PostLeafFrom(relations, scan_i)
       IN  IF j # -1
           THEN /\ last' = InsertFront(last, relations.list[j + 1])
                /\ IF removeRelationKeys(relations, relations.list[j + 1])
                   THEN /\ relations' = removeRelation(relations, relations.list[j + 1])
                        /\ pc' = "separate"
                   ELSE /\ relations' = relations
                        /\ pc' = "raised"
                /\ scan_found' = 1
                /\ scan_i' = j
           ELSE IF scan_found = 1 /\ Len(relations.list) > 0
           THEN /\ scan_i' = 0
                /\ scan_found' = 0
                /\ UNCHANGED <<relations, last, pc>>
           ELSE /\ pc' = IF Len(relations.list) = 0 THEN "return" ELSE "leaf"
                /\ UNCHANGED <<relations, last, scan_i, scan_found>>
    /\ UNCHANGED <<resolver, orderer, stack, phase, order, ordered, op_pos, pending, operations>>
    /\ UNCHANGED pureVars
    /\ UNCHANGED cpioVars
    /\ UNCHANGED <<indexVars, batchVars, instVars>>

GetNextLeafNode ==
    /\ pc = "leaf"
    /\ LET next == getNextLeafNode(relations)
       IN  IF next # None
           THEN /\ order' = Append(order, next)
                /\ IF removeRelationKeys(relations, next)
                   THEN /\ relations' = removeRelation(relations, next)
                        /\ pc' = IF Len(relations.list) = 1 THEN "return" ELSE "separate"
                   ELSE /\ relations' = relations
                        /\ pc' = "raised"
           ELSE /\ pc' = "loops"
                /\ UNCHANGED <<relations, order>>
    /\ scan_i' = 0
    /\ scan_found' = 0
    /\ UNCHANGED <<resolver, orderer, stack, phase, last, ordered, op_pos, pending, operations>>
    /\ UNCHANGED pureVars
    /\ UNCHANGED cpioVars
    /\ UNCHANGED <<indexVars, batchVars, instVars>>

\* the else branch of _genOrder: detectLoops, sortLoops, breakupLoop
BreakupLoop ==
    /\ pc = "loops"
    /\ \E loops \in detectLoops(relations) :
          IF Len(loops) < 1
          THEN /\ pc' = ReturnNone
               /\ UNCHANGED relations
          ELSE \E sorted_loops \in sortLoops(relations, loops) :
                  LET arc == breakupLoop(relations, loops, sorted_loops[1])
                  IN  IF arc = NoArc
                      THEN /\ pc' = ReturnNone
                           /\ UNCHANGED relations
                      ELSE /\ pc' = "separate"
                           /\ relations' = dropRelation(relations, arc[1], arc[2])
    /\ UNCHANGED <<resolver, orderer, stack, phase, order, last, scan_i, scan_found, ordered, op_pos,
                   pending, operations>>
    /\ UNCHANGED pureVars
    /\ UNCHANGED cpioVars
    /\ UNCHANGED <<indexVars, batchVars, instVars>>

\* _genOrder returns order + last to order()
GenOrderReturn ==
    /\ pc = "return"
    /\ IF phase = OP_INSTALL
       THEN /\ ordered' = ordered \o (order \o last)
            /\ pc' = AfterInstalls(orderer)
            /\ phase' = OP_ERASE
       ELSE /\ ordered' = ordered \o SeqReverse(order \o last)
            /\ pc' = "genOperations"
            /\ phase' = phase
    /\ op_pos' = 1
    /\ pending' = <<>>
    /\ operations' = <<>>
    /\ UNCHANGED <<resolver, orderer, stack, relations, order, last, scan_i, scan_found>>
    /\ UNCHANGED pureVars
    /\ UNCHANGED cpioVars
    /\ UNCHANGED <<indexVars, batchVars, instVars>>

\* genOperations: the operation of the next package r of order
EmitOperation ==
    /\ pc = "genOperations"
    /\ pending = <<>>
    /\ op_pos <= Len(ordered)
    /\ LET r == ordered[op_pos]
       IN  IF InSeq(r, orderer.erases)
           THEN /\ operations' = Append(operations, <<OP_ERASE, r>>)
                /\ pending' = <<>>
           ELSE /\ operations' = Append(operations,
                       <<IF r \in DOMAIN orderer.updates THEN OP_UPDATE ELSE OP_INSTALL, r>>)
                /\ pending' = (IF r \in DOMAIN orderer.obsoletes
                               THEN <<orderer.obsoletes[r]>> ELSE <<>>)
                              \o (IF r \in DOMAIN orderer.updates
                                  THEN <<orderer.updates[r]>> ELSE <<>>)
    /\ op_pos' = op_pos + 1
    /\ UNCHANGED <<resolver, orderer, stack, relations, phase, order, last, scan_i, scan_found,
                   ordered, pc>>
    /\ UNCHANGED pureVars
    /\ UNCHANGED cpioVars
    /\ UNCHANGED <<indexVars, batchVars, instVars>>

\* _genEraseOps for the next list of r: one package is erased directly, any
\* other number by the order() of a new RpmOrderer
GenEraseOps ==
    /\ pc = "genOperations"
    /\ pending # <<>>
    /\ LET list == Head(pending)
       IN  IF Len(list) = 1
           THEN /\ operations' = Append(operations, <<OP_ERASE, list[1]>>)
                /\ pending' = Tail(pending)
                /\ UNCHANGED <<orderer, stack, phase, ordered, op_pos, pc>>
           ELSE /\ stack' = <<[orderer |-> orderer, ordered |-> ordered, op_pos |-> op_pos,
                               pending |-> pending, operations |-> operations]>> \o stack
                /\ orderer' = RpmOrderer(<<>>, <<>>, <<>>, list)
                /\ pc' = StartOrder(orderer')
                /\ phase' = StartPhase(orderer')
                /\ ordered' = <<>>
                /\ op_pos' = 1
                /\ pending' = <<>>
                /\ operations' = <<>>
    /\ UNCHANGED <<resolver, relations, order, last, scan_i, scan_found>>
    /\ UNCHANGED pureVars
    /\ UNCHANGED cpioVars
    /\ UNCHANGED <<indexVars, batchVars, instVars>>

\* genOperations returns; order() returns its list, to _genEraseOps if that
\* called it
ReturnOperations ==
    /\ pc = "genOperations"
    /\ pending = <<>>
    /\ op_pos > Len(ordered)
    /\ IF stack = <<>>
       THEN /\ pc' = "done"
            /\ UNCHANGED <<orderer, stack, ordered, op_pos, pending, operations>>
       ELSE /\ pc' = "genOperations"
            /\ orderer' = Head(stack).orderer
            /\ ordered' = Head(stack).ordered
            /\ op_pos' = Head(stack).op_pos
            /\ pending' = Tail(Head(stack).pending)
            /\ operations' = Head(stack).operations \o operations
            /\ stack' = Tail(stack)
    /\ UNCHANGED <<resolver, relations, phase, order, last, scan_i, scan_found>>
    /\ UNCHANGED pureVars
    /\ UNCHANGED cpioVars
    /\ UNCHANGED <<indexVars, batchVars, instVars>>

NextOrder ==
    \/ GenRelations
    \/ SeparatePostLeafNodes
    \/ GetNextLeafNode
    \/ BreakupLoop
    \/ GenOrderReturn
    \/ EmitOperation
    \/ GenEraseOps
    \/ ReturnOperations

(***************************************************************************)
(* The orderer as its caller builds it: every package of the resolver is   *)
(* installed, nothing is updated, obsoleted or erased.  Init draws the     *)
(* requirements: at most MaxReqs requirements between four packages, each  *)
(* of one package on another, plain or %pre; or any part of the five       *)
(* requirements B on A, C on A, D on B, D on C, E on D between five.       *)
(***************************************************************************)
MaxReqs == 4

\* no element of l is in it twice
NoRepeat(l) == \A m, n \in 1..Len(l) : l[m] = l[n] => m = n

\* the subsets of S with at most n elements
RECURSIVE SubsetsUpTo(_, _)
SubsetsUpTo(S, n) ==
    IF n = 0 \/ S = {} THEN {{}}
    ELSE LET x == CHOOSE x \in S : TRUE
         IN  SubsetsUpTo(S \ {x}, n) \cup {T \cup {x} : T \in SubsetsUpTo(S \ {x}, n - 1)}

Require(a, f, b) == [f |-> f, rpms |-> {a}, resolved |-> {b}]

FourPkgs == <<"A", "B", "C", "D">>

FivePkgs == <<"A", "B", "C", "D", "E">>

ReqFlags == {0, RPMSENSE_SCRIPT_PRE}

FourReqs ==
    {Require(a, f, b) : a \in SeqToSet(FourPkgs), b \in SeqToSet(FourPkgs), f \in ReqFlags}

LeafEmissionReqs ==
    {Require("B", 0, "A"), Require("C", 0, "A"), Require("D", 0, "B"),
     Require("D", 0, "C"), Require("E", 0, "D")}

\* the variables of order() as it starts on orderer o
OrderStarts(o) ==
    /\ orderer = o
    /\ stack = <<>>
    /\ relations = [list |-> <<>>, hash |-> <<>>, dropped_relations |-> <<>>]
    /\ phase = StartPhase(o)
    /\ order = <<>>
    /\ last = <<>>
    /\ scan_i = 0
    /\ scan_found = 0
    /\ ordered = <<>>
    /\ op_pos = 1
    /\ pending = <<>>
    /\ operations = <<>>
    /\ pc = StartOrder(o)

InitOrder ==
    /\ PureIdle
    /\ CpioIdle
    /\ IndexIdle
    /\ BatchIdle
    /\ \/ /\ resolver \in SubsetsUpTo({r \in FourReqs : r.rpms # r.resolved}, MaxReqs)
          /\ OrderStarts(RpmOrderer(FourPkgs, <<>>, <<>>, <<>>))
       \/ /\ resolver \in SUBSET LeafEmissionReqs
          /\ OrderStarts(RpmOrderer(FivePkgs, <<>>, <<>>, <<>>))
    /\ InstIdle

\* without updates and obsoletes there is no _genEraseOps call to make
NextInstall ==
    \/ GenRelations
    \/ SeparatePostLeafNodes
    \/ GetNextLeafNode
    \/ BreakupLoop
    \/ GenOrderReturn
    \/ EmitOperation
    \/ ReturnOperations

SpecOrder == InitOrder /\ [][NextInstall]_vars

(***************************************************************************)
(* The orderer of a transaction that installs the new packages N1, N2 and  *)
(* removes installed packages O1, O2, O3 (other objects than the new       *)
(* ones).  Init draws installs, the lists of O1, O2 that an update or an   *)
(* obsoletion displaces (updates for N1 and N2, obsoletes for N1), the     *)
(* erases list and at most MaxOpsReqs requirements: between the new        *)
(* packages, between the installed ones, or of N1 on O1.                   *)
(***************************************************************************)
MaxOpsReqs == 2

MaxDisplaced == 2

InstallLists == {<<>>, <<"N1">>, <<"N1", "N2">>}

\* the lists of at most n packages of S, none twice
RECURSIVE ListsUpTo(_, _)
ListsUpTo(S, n) ==
    IF n = 0 THEN {<<>>}
    ELSE LET shorter == ListsUpTo(S, n - 1)
         IN  shorter \cup {Append(l, x) : l \in shorter, x \in S} 

DisplacedLists == {l \in ListsUpTo({"O1", "O2"}, MaxDisplaced) : l # <<>> /\ NoRepeat(l)}

\* the dictionaries from some of the packages in keys to a list of displaced
DisplacedDicts(keys) == UNION {[K -> DisplacedLists] : K \in SUBSET keys}

EraseLists ==
    {<<>>, <<"O1">>, <<"O2">>, <<"O3">>, <<"O1", "O2">>, <<"O1", "O3">>, <<"O2", "O3">>,
     <<"O1", "O2", "O3">>}

OpsReqs ==
    {Require(a, 0, b) : a \in {"N1", "N2"}, b \in {"N1", "N2"}}
    \cup {Require(a, 0, b) : a \in {"O1", "O2", "O3"}, b \in {"O1", "O2", "O3"}}
    \cup {Require("N1", 0, "O1")}

InitOps ==
    /\ PureIdle
    /\ CpioIdle
    /\ IndexIdle
    /\ BatchIdle
    /\ resolver \in SubsetsUpTo({r \in OpsReqs : r.rpms # r.resolved}, MaxOpsReqs)
    /\ \E installs \in InstallLists :
       \E updates \in DisplacedDicts(SeqToSet(installs)) :
       \E obsoletes \in DisplacedDicts(SeqToSet(installs) \cap {"N1"}) :
       \E erases \in EraseLists :
          OrderStarts(RpmOrderer(installs, updates, obsoletes, erases))
    /\ InstIdle

SpecOps == InitOps /\ [][NextOrder]_vars

(***************************************************************************)
(* The payload of a package: readPayload builds filenamehash and devinode  *)
(* from the file tags of the header, readCpio hands every cpio record to   *)
(* verifyCpio or to extractCpio.  File i of the header has the name i; all *)
(* files are on one device and have one md5sum, so that key stands for the *)
(* tuple (dev, inode, md5sum).  A cpio record carries the name, whether it *)
(* has data (filesize > 0), and its own inode and file type, which         *)
(* verifyCpio reads and which need not be those of the header.  Of the     *)
(* diagnostics of verifyCpio the model keeps those on the file name and on *)
(* the hardlinks; the others compare tags that the model does not hold.    *)
(***************************************************************************)
MaxFiles == 3

MaxInodes == 2

RPMFILE_GHOST == 2 ^ 6

RPMFILE_EXCLUDE == 2 ^ 9

FileFlags == {0, RPMFILE_GHOST, RPMFILE_EXCLUDE}

\* the file types of filemodes: S_ISREG, S_ISDIR, S_ISLNK, S_ISFIFO, S_ISCHR or
\* S_ISBLK, S_ISSOCK
FileModes == {"reg", "dir", "lnk", "fifo", "dev", "sock"}

S_ISREG(mode) == mode = "reg"

\* the inode of a file that is not regular, and the mode and the inode of a
\* file that is not in the payload, are never looked at
HeaderFiles ==
    {f \in [flag : FileFlags, mode : FileModes, key : 1..MaxInodes] :
        /\ ~S_ISREG(f.mode) => f.key = 1
        /\ f.flag # 0 => S_ISREG(f.mode) /\ f.key = 1}

CpioRecords == [name : 0..(MaxFiles - 1), data : BOOLEAN, key : 1..MaxInodes, reg : BOOLEAN]

Compressors == {"gzip", "bzip2", "unknown"}

PayloadFormats == {"cpio", "unknown"}

\* if flag & (RPMFILE_GHOST | RPMFILE_EXCLUDE): continue
InPayload(h, i) == BitAnd(h[i + 1].flag, BitOr(RPMFILE_GHOST, RPMFILE_EXCLUDE)) = 0

\* devinode.setdefault((dev, inode, md5sum), []).append(i) for the files from i on
RECURSIVE HardlinksFrom(_, _, _)
HardlinksFrom(h, key, i) ==
    IF i >= Len(h) THEN <<>>
    ELSE (IF InPayload(h, i) /\ S_ISREG(h[i + 1].mode) /\ h[i + 1].key = key
          THEN <<i>> ELSE <<>>)
         \o HardlinksFrom(h, key, i + 1)

\* devinode of readPayload, after the keys with at most one file are deleted
Clusters(h) ==
    [key \in {k \in 1..MaxInodes : Len(HardlinksFrom(h, k, 0)) > 1} |-> HardlinksFrom(h, key, 0)]

InitCpio ==
    /\ PureIdle
    /\ OrderIdle
    /\ IndexIdle
    /\ BatchIdle
    /\ hdr \in [1..MaxFiles -> HeaderFiles]
    /\ extract \in BOOLEAN
    /\ payload \in [compressor : Compressors, format : PayloadFormats, owner : BOOLEAN]
    /\ filenamehash = {}
    /\ devinode = <<>>
    /\ processed = {}
    /\ disk = <<>>
    /\ fd = "None"
    /\ decomp = "none"
    /\ errs = {}
    /\ fsops = <<>>
    /\ pc = "readPayload"
    /\ InstIdle

\* readPayload up to the call of readCpio: __openFd, the two tables, the
\* decompressor; it returns at once for a payload it cannot read
ReadPayload ==
    /\ pc = "readPayload"
    /\ fd' = "open"
    /\ filenamehash' = {i \in 0..(Len(hdr) - 1) : InPayload(hdr, i)}
    /\ devinode' = Clusters(hdr)
    /\ IF payload.compressor = "unknown"
       THEN /\ errs' = errs \cup {"unknown payload compression"}
            /\ decomp' = decomp
            /\ pc' = "returned"
       ELSE IF payload.format = "unknown"
       THEN /\ errs' = errs \cup {"unknown payload format"}
            /\ decomp' = "released"
            /\ pc' = "returned"
       ELSE /\ errs' = errs
            /\ decomp' = "live"
            /\ pc' = "readCpio"
    /\ UNCHANGED <<hdr, extract, processed, disk, payload, fsops>>
    /\ UNCHANGED <<pureVars, orderVars, indexVars, batchVars, instVars>>

\* readCpio reads a record and calls verifyCpio
VerifyCpio ==
    /\ pc = "readCpio"
    /\ ~extract
    /\ \E rec \in CpioRecords :
          /\ processed' = processed \cup {rec.name}
          /\ IF rec.name \notin filenamehash
             THEN /\ errs' = errs \cup {"cpio file not in rpm header"}
                  /\ UNCHANGED <<filenamehash, devinode, pc>>
             ELSE /\ filenamehash' = filenamehash \ {rec.name}
                  /\ IF rec.reg /\ rec.key \in DOMAIN devinode
                     THEN IF ~InSeq(rec.name, devinode[rec.key])
                          THEN /\ pc' = "raised"
                               /\ UNCHANGED <<devinode, errs>>
                          ELSE IF SeqRemove(devinode[rec.key], rec.name) = <<>>
                          THEN /\ devinode' = DictDel(devinode, rec.key)
                               /\ errs' = IF ~rec.data
                                          THEN errs \cup {"must be 0-size hardlink"}
                                          ELSE errs
                               /\ UNCHANGED pc
                          ELSE /\ devinode' = DictSet(devinode, rec.key,
                                                      SeqRemove(devinode[rec.key], rec.name))
                               /\ errs' = IF rec.data
                                          THEN errs \cup {"non-zero hardlink file, but not the last"}
                                          ELSE errs
                               /\ UNCHANGED pc
                     ELSE UNCHANGED <<devinode, errs, pc>>
    /\ UNCHANGED <<hdr, extract, disk, payload, fd, decomp, fsops>>
    /\ UNCHANGED <<pureVars, orderVars, indexVars, batchVars, instVars>>

\* the files of di get the content of the record: os.rename(tmpfilename, fn2)
RECURSIVE LinkAll(_, _, _)
LinkAll(d, di, content) ==
    IF di = <<>> THEN d ELSE LinkAll(DictSet(d, Head(di), content), Tail(di), content)

\* a filesystem call of extractCpio: on a name mkstemp_* made up (tmp), on the
\* final path of file i (final), or on its directory (parent)
FsOp(call, path, i) == [call |-> call, path |-> path, file |-> i]

\* mkstemp_file, os.write, setPerms and os.rename for file i
WriteFileOps(i) ==
    <<FsOp("mkstemp_file", "tmp", i), FsOp("write", "tmp", i), FsOp("setPerms", "tmp", i),
      FsOp("rename", "final", i)>>

\* for j in di: a hardlink, or a copy where mkstemp_link returns None
RECURSIVE LinkOps(_, _)
LinkOps(di, linked) ==
    IF di = <<>> THEN <<>>
    ELSE <<FsOp("makeDirs", "parent", Head(di))>>
         \o (IF linked
             THEN <<FsOp("mkstemp_link", "tmp", Head(di))>>
             ELSE <<FsOp("mkstemp_file", "tmp", Head(di)), FsOp("write", "tmp", Head(di)),
                    FsOp("setPerms", "tmp", Head(di))>>)
         \o <<FsOp("rename", "final", Head(di))>>
         \o LinkOps(Tail(di), linked)

\* the elif chain of extractCpio for a file that is not regular
OtherFileOps(mode, owner, i) ==
    IF mode = "dir" THEN <<FsOp("makeDirs", "final", i), FsOp("setPerms", "final", i)>>
    ELSE IF mode = "lnk"
    THEN <<FsOp("mkstemp_symlink", "tmp", i), FsOp("setPerms", "tmp", i),
           FsOp("rename", "final", i)>>
    ELSE IF mode = "fifo"
    THEN <<FsOp("mkstemp_mkfifo", "tmp", i), FsOp("setPerms", "tmp", i),
           FsOp("rename", "final", i)>>
    ELSE IF mode = "dev" /\ owner
    THEN <<FsOp("mkstemp_mknod", "tmp", i), FsOp("setPerms", "tmp", i),
           FsOp("rename", "final", i)>>
    ELSE <<>>

\* readCpio reads a record and calls extractCpio
ExtractCpio ==
    /\ pc = "readCpio"
    /\ extract
    /\ \E rec \in CpioRecords :
          /\ processed' = processed \cup {rec.name}
          /\ IF rec.name \notin filenamehash
             THEN /\ errs' = errs \cup {"cpio file not in rpm header"}
                  /\ fsops' = <<>>
                  /\ UNCHANGED <<filenamehash, devinode, disk, pc>>
             ELSE LET f == hdr[rec.name + 1]
                      content == IF rec.data THEN "data" ELSE "empty"
                      dirs == <<FsOp("makeDirs", "parent", rec.name)>>
                  IN  /\ filenamehash' = filenamehash \ {rec.name}
                      /\ errs' = errs
                      /\ IF f.mode = "sock"
                         THEN /\ pc' = "raised"
                              /\ fsops' = dirs
                              /\ UNCHANGED <<devinode, disk>>
                         ELSE IF ~S_ISREG(f.mode)
                         THEN /\ fsops' = dirs \o OtherFileOps(f.mode, payload.owner, rec.name)
                              /\ disk' = IF OtherFileOps(f.mode, payload.owner, rec.name) # <<>>
                                         THEN DictSet(disk, rec.name, "made") ELSE disk
                              /\ UNCHANGED <<devinode, pc>>
                         ELSE IF f.key \notin DOMAIN devinode
                         THEN /\ fsops' = dirs \o WriteFileOps(rec.name)
                              /\ disk' = DictSet(disk, rec.name, content)
                              /\ UNCHANGED <<devinode, pc>>
                         ELSE IF rec.data
                         THEN /\ \E linked \in BOOLEAN :
                                    fsops' = dirs \o WriteFileOps(rec.name)
                                             \o LinkOps(SeqRemove(devinode[f.key], rec.name),
                                                        linked)
                              /\ disk' = LinkAll(disk, devinode[f.key], content)
                              /\ devinode' = DictDel(devinode, f.key)
                              /\ UNCHANGED pc
                         ELSE /\ fsops' = dirs
                              /\ UNCHANGED <<devinode, disk, pc>>
    /\ UNCHANGED <<hdr, extract, payload, fd, decomp>>
    /\ UNCHANGED <<pureVars, orderVars, indexVars, batchVars, instVars>>

\* doRead meets the end of the file before the record is complete and raises
\* IOError
ReadFails ==
    /\ pc = "readCpio"
    /\ pc' = "raised"
    /\ UNCHANGED cpioVars
    /\ UNCHANGED <<indexVars, batchVars, instVars>>
    /\ UNCHANGED <<pureVars, orderVars, indexVars, batchVars, instVars>>

CpioEnds == {"trailer", "bad magic reading CPIO header", "failed cpiosize check"}

\* readCpio meets the trailer, or a bad magic, and returns; readPayload prints
\* what is left over, drops c and fd and closes the package file
EndOfCpio ==
    /\ pc = "readCpio"
    /\ \E end \in CpioEnds :
          errs' = IF end # "trailer" THEN errs \cup {end}
                  ELSE errs \cup (IF filenamehash # {} THEN {"file not in cpio"} ELSE {})
                            \cup (IF extract /\ DOMAIN devinode # {}
                                  THEN {"hardlinked files remain from cpio"} ELSE {})
    /\ decomp' = "released"
    /\ fd' = "None"
    /\ pc' = "closed"
    /\ UNCHANGED <<hdr, extract, filenamehash, devinode, processed, disk, payload, fsops>>
    /\ UNCHANGED <<pureVars, orderVars, indexVars, batchVars, instVars>>

NextCpio == ReadPayload \/ VerifyCpio \/ ExtractCpio \/ ReadFails \/ EndOfCpio

SpecCpio == InitCpio /\ [][NextCpio]_vars
(***************************************************************************)
(* Claims on the comparator.                                               *)
(***************************************************************************)
Returned(fn) == pc = "ret" /\ arg.fn = fn

\* C2: EVR comparison is antisymmetric: labelCompare(V1, V2) = -labelCompare(V2, V1)
\* for all tuples, strings of separators included.
C2_Antisymmetric == Returned("labelCompare") => res.fwd = -res.rev

\* C7: labelCompare is the first non-zero of the epoch, version and release
\* comparisons, and the releases are ignored when either of them is empty.
C7_FirstDiffering ==
    Returned("labelCompare") =>
        LET ce == stringCompare(arg.a[1], arg.b[1])
            cv == stringCompare(arg.a[2], arg.b[2])
            cr == stringCompare(arg.a[3], arg.b[3])
        IN  res.fwd = IF ce # 0 THEN ce
                      ELSE IF cv # 0 THEN cv
                      ELSE IF arg.a[3] = <<>> \/ arg.b[3] = <<>> THEN 0
                      ELSE cr

\* equal epoch and version, one release empty and the other not: the result is 0
C7_Witness ==
    /\ Returned("labelCompare")
    /\ arg.a = <<<<ChZero>>, <<ChOne>>, <<>>>>
    /\ arg.b = <<<<ChZero>>, <<ChOne>>, <<ChOne>>>>
    /\ res.fwd = 0

(***************************************************************************)
(* Claims on the flags and the lookup.                                     *)
(***************************************************************************)
HasBit(flag, n) == (flag \div (2 ^ n)) % 2 = 1

\* C3: operationFlag is HARD exactly for a bare PREREQ (no other requires-mask
\* bit), for bit 11 or 12 during erase, and for bit 9, 10, 24 or 26 otherwise.
C3_Hardness ==
    Returned("operationFlag") =>
        LET f == arg.flag
            legacy == /\ HasBit(f, 6)
                      /\ \A n \in (8..14) \cup (20..24) \cup {26} : ~HasBit(f, n)
            erase == arg.operation = "erase" /\ (HasBit(f, 11) \/ HasBit(f, 12))
            install == /\ arg.operation # "erase"
                       /\ (HasBit(f, 9) \/ HasBit(f, 10) \/ HasBit(f, 24) \/ HasBit(f, 26))
        IN  /\ res \in {SOFT, HARD}
            /\ res = HARD <=> (legacy \/ erase \/ install)

\* SCRIPT_PRE|PREREQ during erase is SOFT
C3_Witness ==
    /\ Returned("operationFlag")
    /\ arg.flag = 2 ^ 9 + 2 ^ 6
    /\ arg.operation = "erase"
    /\ res = SOFT

\* C6: rangeCompare is 1 exactly when sense < 0 and (flag1 has GREATER or flag2
\* has LESS), sense > 0 and (flag1 has LESS or flag2 has GREATER), or sense = 0
\* and the flags share EQUAL, LESS or GREATER.
C6_RangeIntersect ==
    Returned("rangeCompare") =>
        LET sense == labelCompare(arg.evr1, arg.evr2)
            f1 == arg.flag1
            f2 == arg.flag2
            want == \/ sense < 0 /\ (HasBit(f1, 2) \/ HasBit(f2, 1))
                    \/ sense > 0 /\ (HasBit(f1, 1) \/ HasBit(f2, 2))
                    \/ sense = 0 /\ \E n \in {1, 2, 3} : HasBit(f1, n) /\ HasBit(f2, n)
        IN  res = IF want THEN 1 ELSE 0

\* (LESS, 0:2-1) and (GREATER|EQUAL, 0:2-1) do not intersect
C6_Witness ==
    /\ Returned("rangeCompare")
    /\ arg.flag1 = RPMSENSE_LESS
    /\ arg.flag2 = BitOr(RPMSENSE_GREATER, RPMSENSE_EQUAL)
    /\ arg.evr1 = <<<<ChZero>>, <<ChTwo>>, <<ChOne>>>>
    /\ arg.evr2 = arg.evr1
    /\ res = 0

\* the entries under the looked-up name
C5_Entries ==
    IF arg.name \in DOMAIN arg.provides
    THEN {arg.provides[arg.name][k] : k \in 1..Len(arg.provides[arg.name])}
    ELSE {}

\* the query is unversioned or its range intersects the entry's
C5_Intersects(e) ==
    \/ arg.version = <<>>
    \/ rangeCompare(arg.flag, evrSplit(arg.version), e[1], evrSplit(e[2])) = 1

NoDuplicates(s) == \A i, j \in 1..Len(s) : s[i] = s[j] => i = j

\* C5 as stated: the lookup returns, each once, exactly the owners with an entry
\* for which the query is unversioned or the ranges intersect.
C5_AsStated ==
    Returned("searchDependency") =>
        /\ NoDuplicates(res)
        /\ {res[k] : k \in 1..Len(res)} = {e[3] : e \in {x \in C5_Entries : C5_Intersects(x)}}

\* C5 amended: the lookup returns, each once, exactly the owners with an entry
\* for which the query is unversioned, the ranges intersect, or the entry itself
\* carries no version.
C5_WithUnversionedProvides ==
    Returned("searchDependency") =>
        /\ NoDuplicates(res)
        /\ {res[k] : k \in 1..Len(res)} =
               {e[3] : e \in {x \in C5_Entries : C5_Intersects(x) \/ x[2] = <<>>}}

\* a versioned query answered by an unversioned provide whose range does not
\* intersect it, next to an owner that is left out
C5_Witness ==
    /\ Returned("searchDependency")
    /\ arg.name = "n"
    /\ arg.version = <<ChTwo>>
    /\ arg.flag = RPMSENSE_EQUAL
    /\ arg.provides["n"] = <<<<RPMSENSE_EQUAL, <<ChOne>>, "p2">>, <<0, <<>>, "p1">>>>
    /\ res = <<"p1">>

(***************************************************************************)
(* Claims on the ordering.                                                 *)
(***************************************************************************)
\* the arcs <<A, B>>, A requires B, of the graph when the ordering started
InitialArcs == UNION {ReqArcs(req) : req \in resolver}

\* _dropRelation was called for the arc: B is in dropped_relations[A]
WasDropped(a) ==
    /\ a[1] \in DOMAIN relations.dropped_relations
    /\ InSeq(a[2], relations.dropped_relations[a[1]])

\* x is in l, and before every y of l
Before(l, x, y) ==
    \E m \in 1..Len(l) : l[m] = x /\ \A n \in 1..Len(l) : l[n] = y => m < n

\* C1: in the list _genOrder returns, every arc A requires B of the starting
\* graph that was not passed to _dropRelation has B before A.
C1_KeptArcsOrdered ==
    pc = "return" =>
        \A a \in InitialArcs :
            ~WasDropped(a) =>
                /\ InSeq(a[1], order \o last)
                /\ Before(order \o last, a[2], a[1])

\* an ordering that dropped an arc and kept another
C1_Witness ==
    /\ pc = "return"
    /\ \E a \in InitialArcs : WasDropped(a)
    /\ \E a \in InitialArcs : ~WasDropped(a)

\* the packages that S reaches by one or more arcs
RECURSIVE ReachedFrom(_, _)
ReachedFrom(S, arcs) ==
    LET T == S \cup {a[2] : a \in {b \in arcs : b[1] \in S}}
    IN  IF T = S THEN S ELSE ReachedFrom(T, arcs)

Acyclic(arcs) ==
    \A a \in arcs : a[1] \notin ReachedFrom({a[2]}, arcs)

\* C8: on an acyclic graph _genOrder drops no arc and returns every package
\* once, each required package before the packages that require it; for B on
\* A, C on A, D on B, D on C, E on D the list starts with A and ends with D, E.
C8_AcyclicOrder ==
    (pc = "return" /\ Acyclic(InitialArcs)) =>
        LET l == order \o last
        IN  /\ DOMAIN relations.dropped_relations = {}
            /\ NoDuplicates(l)
            /\ SeqToSet(l) = SeqToSet(orderer.installs)
            /\ \A a \in InitialArcs : Before(l, a[2], a[1])
            /\ resolver = LeafEmissionReqs =>
                   l[1] = "A" /\ l[4] = "D" /\ l[5] = "E"

\* the five packages of the example, ordered
C8_Witness ==
    /\ pc = "return"
    /\ resolver = LeafEmissionReqs
    /\ order \o last \in {<<"A", "B", "C", "D", "E">>, <<"A", "C", "B", "D", "E">>}

\* the graph is the two cycles a-b-a of plain soft arcs and a-c-a with a
\* VIRTUAL arc, and nothing else
TwoCycles(R, a, b, c) ==
    /\ SeqToSet(R.list) = {a, b, c}
    /\ a # b /\ a # c /\ b # c
    /\ DOMAIN R.hash[a].pre = {b, c}
    /\ DOMAIN R.hash[b].pre = {a}
    /\ DOMAIN R.hash[c].pre = {a}
    /\ R.hash[a].pre[b] = SOFT
    /\ R.hash[b].pre[a] = SOFT
    /\ BitAnd(R.hash[a].pre[c], HARD) = 0
    /\ BitAnd(R.hash[c].pre[a], HARD) = 0
    /\ BitAnd(R.hash[a].pre[c], VIRTUAL) # 0 \/ BitAnd(R.hash[c].pre[a], VIRTUAL) # 0

\* this step of _genOrder drops the arc <<node, next>>
Drops(node, next) ==
    /\ relations'.dropped_relations # relations.dropped_relations
    /\ node \in DOMAIN relations'.dropped_relations
    /\ relations'.dropped_relations[node] =
           Append(IF node \in DOMAIN relations.dropped_relations
                  THEN relations.dropped_relations[node] ELSE <<>>, next)

\* C9: with a cycle A-B-A of plain soft arcs and a cycle A-C-A with a VIRTUAL
\* arc in the graph, the arc _genOrder drops is the VIRTUAL one, in whatever
\* order sortLoops visits the two loops.
C9_VirtualFirst ==
    [][\A a, b, c \in SeqToSet(FourPkgs) :
          (pc = "loops" /\ TwoCycles(relations, a, b, c)) =>
              \A node, next \in SeqToSet(FourPkgs) :
                  Drops(node, next) => BitAnd(relations.hash[node].pre[next], VIRTUAL) # 0]_vars

(***************************************************************************)
(* Claims on the operations.                                               *)
(***************************************************************************)
\* d[k], or the empty list for a package that is not a key of d
ListOf(d, k) == IF k \in DOMAIN d THEN d[k] ELSE <<>>

\* the operations ops[from .. from + n - 1] exist and are the ERASE
\* operations of exactly the packages of list, each once
ErasesExactly(ops, from, list) ==
    /\ from + Len(list) - 1 <= Len(ops)
    /\ \A n \in from..(from + Len(list) - 1) : ops[n][1] = OP_ERASE
    /\ \A p \in SeqToSet(list) :
           Cardinality({n \in from..(from + Len(list) - 1) : ops[n][2] = p}) = 1

\* the number of operations of the package pkg of installs: its own, and the
\* erasure of what it obsoletes and updates
BlockLen(o, pkg) == 1 + Len(ListOf(o.obsoletes, pkg)) + Len(ListOf(o.updates, pkg))

\* the operations from position from on are the blocks of the packages of
\* installs, in some order, and then ERASE operations of packages that no
\* update or obsoletion displaces
RECURSIVE OperationBlocks(_, _, _, _)
OperationBlocks(o, ops, from, todo) ==
    IF todo = {}
    THEN \A n \in from..Len(ops) :
             /\ ops[n][1] = OP_ERASE
             /\ ~InSeq(ops[n][2], Displaced(o.updates) \o Displaced(o.obsoletes))
    ELSE /\ from <= Len(ops)
         /\ ops[from][2] \in todo
         /\ ops[from][1] = IF ops[from][2] \in DOMAIN o.updates THEN OP_UPDATE ELSE OP_INSTALL
         /\ ErasesExactly(ops, from + 1, ListOf(o.obsoletes, ops[from][2]))
         /\ ErasesExactly(ops, from + 1 + Len(ListOf(o.obsoletes, ops[from][2])),
                          ListOf(o.updates, ops[from][2]))
         /\ OperationBlocks(o, ops, from + BlockLen(o, ops[from][2]), todo \ {ops[from][2]})

\* C4: the list order() returns has one UPDATE (for a key of updates) or
\* INSTALL operation for every package of installs, each followed at once by
\* the ERASE operations of exactly obsoletes[pkg] and then of exactly
\* updates[pkg]; the explicit erases that end the list hold no package that an
\* update or an obsoletion displaces.
C4_OperationBlocks ==
    (pc = "done" /\ stack = <<>>) =>
        OperationBlocks(orderer, operations, 1, SeqToSet(orderer.installs))

\* N1 obsoletes one package and updates two (ordered by a second orderer), N2
\* is installed, and an explicit erase ends the list
C4_Witness ==
    /\ pc = "done"
    /\ stack = <<>>
    /\ orderer.installs = <<"N1", "N2">>
    /\ "N1" \in DOMAIN orderer.obsoletes
    /\ "N1" \in DOMAIN orderer.updates
    /\ Len(orderer.updates["N1"]) = 2
    /\ "N2" \notin DOMAIN orderer.updates
    /\ Len(operations) > BlockLen(orderer, "N1") + BlockLen(orderer, "N2")

(***************************************************************************)
(* Claims on the payload.                                                  *)
(***************************************************************************)
\* C10: while readCpio runs, for verifyCpio and for extractCpio alike, a
\* hardlink cluster (a key of at least two regular files that are neither
\* ghost nor excluded) is out of devinode exactly when the cpio records of
\* all of its files have been processed.
C10_ClusterRemoval ==
    pc \in {"readCpio", "closed"} =>
        \A key \in DOMAIN Clusters(hdr) :
            key \notin DOMAIN devinode <=> SeqToSet(Clusters(hdr)[key]) \subseteq processed

\* C11: during extraction, once the record with the data of a hardlink
\* cluster has been processed, every path of the cluster holds that data and
\* keeps it when the records of the other members follow; where members still
\* follow, the diagnostic on a data record that is not the last was printed.
C11_DataRecordNotLast ==
    (extract /\ pc \in {"readCpio", "closed"}) =>
        \A key \in DOMAIN Clusters(hdr) :
            key \notin DOMAIN devinode =>
                /\ \A i \in SeqToSet(Clusters(hdr)[key]) : i \in DOMAIN disk /\ disk[i] = "data"
                /\ ~(SeqToSet(Clusters(hdr)[key]) \subseteq processed) =>
                       "non-zero hardlink file, but not the last" \in errs

\* the calls that create a randomly named sibling of the final path
MkstempCalls ==
    {"mkstemp_file", "mkstemp_link", "mkstemp_symlink", "mkstemp_mkfifo", "mkstemp_mknod"}

\* C12: the only call extractCpio makes on a final path is the rename of a
\* sibling that a mkstemp function created before for that path.
C12_TempThenRename ==
    \A n \in 1..Len(fsops) :
        fsops[n].path = "final" =>
            /\ fsops[n].call = "rename"
            /\ \E m \in 1..(n - 1) :
                   fsops[m].call \in MkstempCalls /\ fsops[m].file = fsops[n].file

\* C15: when readPayload is over, by a return or by an exception, the package
\* file is closed (fd is None) and the decompressor is released.
C15_ClosedOnEveryExit ==
    (payload # <<>> /\ pc \in {"closed", "returned", "raised"}) =>
        fd = "None" /\ decomp # "live"

(***************************************************************************)
(* EVR strings and file name lists.                                        *)
(***************************************************************************)
ChSlash == 47

\* "%s:%s-%s" of getEVR, the epoch already printed
EVRString(epoch, version, release) ==
    epoch \o <<ChColon>> \o version \o <<ChDash>> \o release

\* s.rfind(c): the 0-based index of the last c, or -1
RECURSIVE RFind(_, _, _)
RFind(s, c, end) ==
    IF end <= 0 THEN -1
    ELSE IF s[end] = c THEN end - 1
    ELSE RFind(s, c, end - 1)

\* s.rstrip("/")
RECURSIVE RStripSlash(_)
RStripSlash(s) ==
    IF s # <<>> /\ s[Len(s)] = ChSlash THEN RStripSlash(SubSeq(s, 1, Len(s) - 1)) ELSE s

\* head is made of "/" only
AllSlashes(s) == \A k \in 1..Len(s) : s[k] = ChSlash

\* os.path.split(p): (head, tail) around the last "/", the trailing slashes of
\* head stripped unless head is slashes only
os_path_split(p) ==
    LET i == RFind(p, ChSlash, Len(p)) + 1
        head == Slice(p, 0, i)
        tail == Slice(p, i, Len(p))
    IN  IF head # <<>> /\ ~AllSlashes(head) THEN <<RStripSlash(head), tail>> ELSE <<head, tail>>

\* (dirname, basename) of genBasenames: dirname gets a "/" unless it ends in one
SplitFilename(filename) ==
    LET sp == os_path_split(filename)
        dirname == IF sp[1] = <<>> \/ sp[1][Len(sp[1])] # ChSlash
                   THEN sp[1] \o <<ChSlash>> ELSE sp[1]
    IN  <<dirname, sp[2]>>

\* dirnames.index(dirname), 0-based, or -1 for the ValueError
RECURSIVE DirIndex(_, _, _)
DirIndex(dirnames, dirname, k) ==
    IF k > Len(dirnames) THEN -1
    ELSE IF dirnames[k] = dirname THEN k - 1
    ELSE DirIndex(dirnames, dirname, k + 1)

\* olddirname before the first file: no string has this character
NoDirname == <<-1>>

\* the for loop of genBasenames from file k on
RECURSIVE genBasenamesLoop(_, _, _, _, _, _, _)
genBasenamesLoop(oldfilenames, k, basenames, dirindexes, dirnames, olddirname, olddirindex) ==
    IF k > Len(oldfilenames) THEN <<basenames, dirindexes, dirnames>>
    ELSE LET sp == SplitFilename(oldfilenames[k])
             dirname == sp[1]
             basename == sp[2]
             found == DirIndex(dirnames, dirname, 1)
             dirnames2 == IF dirname = olddirname \/ found # -1 THEN dirnames
                          ELSE Append(dirnames, dirname)
             dirindex == IF dirname = olddirname THEN olddirindex
                         ELSE IF found # -1 THEN found
                         ELSE Len(dirnames2) - 1
         IN  genBasenamesLoop(oldfilenames, k + 1, Append(basenames, basename),
                              Append(dirindexes, dirindex), dirnames2, dirname, dirindex)

genBasenames(oldfilenames) == genBasenamesLoop(oldfilenames, 1, <<>>, <<>>, <<>>, NoDirname, 0)

\* getFilenames of a header with basenames, dirindexes and dirnames
getFilenames(basenames, dirindexes, dirnames) ==
    [i \in 1..Len(basenames) |-> dirnames[dirindexes[i] + 1] \o basenames[i]]

(***************************************************************************)
(* The string functions under test: Init draws the parts of an EVR string, *)
(* a whole EVR string, or a list of file names.                            *)
(***************************************************************************)
\* longest epoch, version or release of a composed EVR string
MaxPartLen == 2

\* longest EVR string given whole
MaxWholeLen == 4

\* longest file name and most file names of a list
MaxPathLen == 4

MaxPaths == 2

SplitChars == {ChColon, ChDash, ChOne}

PathChars == {ChSlash, ChA}

PartStrs == StrsUpTo(SplitChars, MaxPartLen)

Paths == StrsUpTo(PathChars, MaxPathLen)

InitText ==
    /\ arg \in [fn : {"getEVR"}, epoch : PartStrs, version : PartStrs, release : PartStrs]
               \cup [fn : {"evrSplit"}, evr : StrsUpTo(SplitChars, MaxWholeLen)]
               \cup [fn : {"genBasenames"},
                     oldfilenames : UNION {[1..k -> Paths] : k \in 0..MaxPaths}]
    /\ res = NoRes
    /\ pc = "call"
    /\ OrderIdle
    /\ CpioIdle
    /\ IndexIdle
    /\ BatchIdle
    /\ InstIdle

\* evrSplit(pkg.getEVR())
CallEvrSplitOfEVR ==
    /\ arg.fn = "getEVR"
    /\ pc = "call"
    /\ pc' = "ret"
    /\ res' = evrSplit(EVRString(arg.epoch, arg.version, arg.release))
    /\ UNCHANGED arg
    /\ UNCHANGED orderVars
    /\ UNCHANGED cpioVars
    /\ UNCHANGED <<indexVars, batchVars, instVars>>

CallEvrSplit ==
    /\ arg.fn = "evrSplit"
    /\ pc = "call"
    /\ pc' = "ret"
    /\ res' = evrSplit(arg.evr)
    /\ UNCHANGED arg
    /\ UNCHANGED orderVars
    /\ UNCHANGED cpioVars
    /\ UNCHANGED <<indexVars, batchVars, instVars>>

CallGenBasenames ==
    /\ arg.fn = "genBasenames"
    /\ pc = "call"
    /\ pc' = "ret"
    /\ res' = genBasenames(arg.oldfilenames)
    /\ UNCHANGED arg
    /\ UNCHANGED orderVars
    /\ UNCHANGED cpioVars
    /\ UNCHANGED <<indexVars, batchVars, instVars>>

NextText == CallEvrSplitOfEVR \/ CallEvrSplit \/ CallGenBasenames

SpecText == InitText /\ [][NextText]_vars

(***************************************************************************)
(* Claims on the EVR strings and the file name lists.                      *)
(***************************************************************************)
HasChar(s, c) == \E k \in 1..Len(s) : s[k] = c

\* where the version starts: behind the first ":" if there is one (1-based)
AfterEpoch(s) ==
    IF HasChar(s, ChColon) THEN 1 + CHOOSE k \in 1..Len(s) : s[k] = ChColon /\ \A m \in 1..(k - 1) : s[m] # ChColon
    ELSE 1

\* the defaults: a string without ":" has epoch "0", a string without "-" behind
\* the epoch has release ""
C19_Defaults ==
    Returned("evrSplit") =>
        /\ ~HasChar(arg.evr, ChColon) => res[1] = <<ChZero>>
        /\ (\A k \in AfterEpoch(arg.evr)..Len(arg.evr) : arg.evr[k] # ChDash) => res[3] = <<>>

\* C19 as stated: for all E, V, R with E and R non-empty, evrSplit(E:V-R) is
\* (E, V, R); and the defaults hold.
C19_AsStated ==
    /\ C19_Defaults
    /\ (Returned("getEVR") /\ arg.epoch # <<>> /\ arg.release # <<>>) =>
           res = <<arg.epoch, arg.version, arg.release>>

\* C19 amended: for all E without ":" and V without "-", evrSplit(E:V-R) is
\* (E, V, R); and the defaults hold.
C19_SplitOfUnambiguous ==
    /\ C19_Defaults
    /\ (Returned("getEVR") /\ ~HasChar(arg.epoch, ChColon) /\ ~HasChar(arg.version, ChDash)) =>
           res = <<arg.epoch, arg.version, arg.release>>

\* "-1:1:-1-": the epoch holds a "-", the version a ":", the release a "-"
C19_Witness ==
    /\ Returned("getEVR")
    /\ arg.epoch = <<ChDash, ChOne>>
    /\ arg.version = <<ChOne, ChColon>>
    /\ arg.release = <<ChOne, ChDash>>
    /\ res = <<arg.epoch, arg.version, arg.release>>

\* C20: reassembling dirnames[dirindexes[i]] + basenames[i] from the result of
\* genBasenames gives back the list of file names, in order and in length.
C20_Reassemble ==
    Returned("genBasenames") => getFilenames(res[1], res[2], res[3]) = arg.oldfilenames

(***************************************************************************)
(* FilenamesList.  A package is a record of its tags, a tag it does not    *)
(* have is no field of the record (pkg[tag] == None).  An entry of path    *)
(* holds the name of the package for the package object.                   *)
(***************************************************************************)
HasTag(pkg, tag) == tag \in DOMAIN pkg

\* genBasenames2: (basenames, dirnames), one of each per file name
genBasenames2(oldfilenames) ==
    <<[i \in 1..Len(oldfilenames) |-> SplitFilename(oldfilenames[i])[2]],
      [i \in 1..Len(oldfilenames) |-> SplitFilename(oldfilenames[i])[1]]>>

\* (basenames, dirnames) of addPkg and removePkg: dirnames[i] is the directory
\* of file i; <<>> for a package without file tags
PkgFiles(pkg) ==
    IF HasTag(pkg, "basenames")
    THEN <<pkg.basenames, [i \in 1..Len(pkg.dirindexes) |-> pkg.dirnames[pkg.dirindexes[i] + 1]]>>
    ELSE IF HasTag(pkg, "oldfilenames") THEN genBasenames2(pkg.oldfilenames)
    ELSE <<>>

\* for dirname in dirnames: path.setdefault(dirname, {})
RECURSIVE SetDefaultDirs(_, _, _)
SetDefaultDirs(path, dirnames, k) ==
    IF k > Len(dirnames) THEN path
    ELSE SetDefaultDirs(IF dirnames[k] \in DOMAIN path THEN path
                        ELSE DictSet(path, dirnames[k], EmptyDict), dirnames, k + 1)

\* what addPkg appends for file i (0-based) of pkg
PathEntry(checkfileconflicts, pkg, i) == IF checkfileconflicts THEN <<pkg.name, i>> ELSE pkg.name

\* path[dirnames[i]].setdefault(basenames[i], []).append(entry), from file k on
RECURSIVE AppendEntries(_, _, _, _, _)
AppendEntries(path, checkfileconflicts, pkg, files, k) ==
    IF k > Len(files[1]) THEN path
    ELSE LET d == files[2][k]
             b == files[1][k]
             old == IF b \in DOMAIN path[d] THEN path[d][b] ELSE <<>>
             new == Append(old, PathEntry(checkfileconflicts, pkg, k - 1))
         IN  AppendEntries(DictSet(path, d, DictSet(path[d], b, new)), checkfileconflicts,
                           pkg, files, k + 1)

FilenamesList_addPkg(self, pkg) ==
    LET files == PkgFiles(pkg)
        dirs == IF HasTag(pkg, "basenames") THEN pkg.dirnames ELSE files[2]
    IN  IF files = <<>> THEN self
        ELSE [self EXCEPT !.path = AppendEntries(SetDefaultDirs(self.path, dirs, 1),
                                                 self.checkfileconflicts, pkg, files, 1)]

\* self.path[dirnames[i]][basenames[i]].remove(entry), from file k on
RECURSIVE RemoveEntries(_, _, _, _, _)
RemoveEntries(path, checkfileconflicts, pkg, files, k) ==
    IF k > Len(files[1]) THEN path
    ELSE LET d == files[2][k]
             b == files[1][k]
             new == SeqRemove(path[d][b], PathEntry(checkfileconflicts, pkg, k - 1))
         IN  RemoveEntries(DictSet(path, d, DictSet(path[d], b, new)), checkfileconflicts,
                           pkg, files, k + 1)

FilenamesList_removePkg(self, pkg) ==
    LET files == PkgFiles(pkg)
    IN  IF files = <<>> THEN self
        ELSE [self EXCEPT !.path = RemoveEntries(self.path, self.checkfileconflicts, pkg,
                                                 files, 1)]

\* path.get(dirname, {}).get(basename, []), the packages of the entries
PathOwners(self, dirname, basename) ==
    LET ret == IF dirname \in DOMAIN self.path /\ basename \in DOMAIN self.path[dirname]
               THEN self.path[dirname][basename] ELSE <<>>
    IN  IF self.checkfileconflicts THEN [k \in 1..Len(ret) |-> ret[k][1]] ELSE ret

\* searchDependency looking under the directory as os.path.split returns it
FilenamesList_searchDependencyRawDir(self, name) ==
    PathOwners(self, os_path_split(name)[1], os_path_split(name)[2])

FilenamesList_searchDependency(self, name) ==
    PathOwners(self, SplitFilename(name)[1], SplitFilename(name)[2])

(***************************************************************************)
(* The FilenamesList under test: packages are added and removed, paths     *)
(* are looked up.                                                          *)
(***************************************************************************)
ChB == 98

\* most times a package is in the list at once
MaxAdds == 2

\* "/", "/a/", "a", "b"
DirRoot == <<ChSlash>>

DirA == <<ChSlash, ChA, ChSlash>>

\* the packages: files /a; /b, /a/a, /a/a; /a, /a/b (old tag); a (old tag); none
IndexPkgs ==
    {[name |-> "p1", basenames |-> <<<<ChA>>>>, dirindexes |-> <<0>>, dirnames |-> <<DirRoot>>],
     [name |-> "p2", basenames |-> <<<<ChB>>, <<ChA>>, <<ChA>>>>, dirindexes |-> <<1, 0, 0>>,
      dirnames |-> <<DirA, DirRoot>>] ,
     [name |-> "p3", oldfilenames |-> <<<<ChSlash, ChA>>, <<ChSlash, ChA, ChSlash, ChB>>>>],
     [name |-> "p4", oldfilenames |-> <<<<ChA>>>>],
     [name |-> "p5"]}

\* "/a", "/a/a", "/a/b", "/a//b", "a", "/b", "//a"
QueryPaths ==
    {<<ChSlash, ChA>>, <<ChSlash, ChA, ChSlash, ChA>>, <<ChSlash, ChA, ChSlash, ChB>>,
     <<ChSlash, ChA, ChSlash, ChSlash, ChB>>, <<ChA>>, <<ChSlash, ChB>>,
     <<ChSlash, ChSlash, ChA>>}

InitIndex ==
    /\ filenames_list \in [checkfileconflicts : BOOLEAN, path : {EmptyDict}]
    /\ added = [p \in {pkg.name : pkg \in IndexPkgs} |-> 0]
    /\ arg = [fn |-> "none"]
    /\ res = NoRes
    /\ pc = "call"
    /\ BatchIdle
    /\ OrderIdle
    /\ CpioIdle
    /\ InstIdle

AddPkg ==
    \E pkg \in IndexPkgs :
        /\ added[pkg.name] < MaxAdds
        /\ filenames_list' = FilenamesList_addPkg(filenames_list, pkg)
        /\ added' = [added EXCEPT ![pkg.name] = @ + 1]
        /\ arg' = [fn |-> "addPkg", pkg |-> pkg.name]
        /\ res' = NoRes
        /\ pc' = "ret"
        /\ UNCHANGED <<orderVars, cpioVars, batchVars, instVars>>

RemovePkg ==
    \E pkg \in IndexPkgs :
        /\ added[pkg.name] > 0
        /\ filenames_list' = FilenamesList_removePkg(filenames_list, pkg)
        /\ added' = [added EXCEPT ![pkg.name] = @ - 1]
        /\ arg' = [fn |-> "removePkg", pkg |-> pkg.name]
        /\ res' = NoRes
        /\ pc' = "ret"
        /\ UNCHANGED <<orderVars, cpioVars, batchVars, instVars>>

SearchPath ==
    \E name \in QueryPaths :
        /\ arg' = [fn |-> "FilenamesList.searchDependency", name |-> name]
        /\ res' = FilenamesList_searchDependency(filenames_list, name)
        /\ pc' = "ret"
        /\ UNCHANGED <<orderVars, cpioVars, indexVars, batchVars, instVars>>

NextIndex == AddPkg \/ RemovePkg \/ SearchPath

SpecIndex == InitIndex /\ [][NextIndex]_vars

(***************************************************************************)
(* Claims on the FilenamesList.                                            *)
(***************************************************************************)
\* how often x is in the list s
Count(s, x) == Cardinality({k \in 1..Len(s) : s[k] = x})

\* the file names of a package: getFilenames
FileList(pkg) ==
    IF HasTag(pkg, "oldfilenames") THEN pkg.oldfilenames
    ELSE IF HasTag(pkg, "basenames")
    THEN getFilenames(pkg.basenames, pkg.dirindexes, pkg.dirnames)
    ELSE <<>>

\* the (dirname, basename) pairs a package is entered under
FileKeys(pkg) ==
    IF PkgFiles(pkg) = <<>> THEN <<>>
    ELSE [i \in 1..Len(PkgFiles(pkg)[1]) |-> <<PkgFiles(pkg)[2][i], PkgFiles(pkg)[1][i]>>]

RpmResolver_searchDependency(self, name, flag, version) ==
    LET s == searchDependency(name, flag, version, self.provides_list)
    IN  IF name[1] = ChSlash /\ version = <<>>
        THEN s \o FilenamesList_searchDependency(self.filenames_list, name)
        ELSE s

\* RpmDatabase.searchProvides is abstract: the provides lookup, a dict
RpmDatabase_searchProvides(self, name, flag, version) ==
    searchDependency(name, flag, version, self.provides_list)

\* RpmDatabase.searchFilenames is abstract: the lookup in the filename index
RpmDatabase_searchFilenames(self, filename) ==
    FilenamesList_searchDependency(self.filenames_list, filename)

RpmDatabase_searchDependency(self, name, flag, version) ==
    LET s == RpmDatabase_searchProvides(self, name, flag, version)
    IN  IF name[1] = ChSlash THEN s \o RpmDatabase_searchFilenames(self, name) ELSE s

\* filecolorsi: None without the tag
FileColor(rpm, i) == IF HasTag(rpm, "filecolors") /\ rpm.filecolors # <<>> THEN rpm.filecolors[i + 1] ELSE 0

\* the test of checkDeps with any two differing colors taken for multilib
FileConflictAnyColors(rpm1, i1, rpm2, i2) ==
    /\ ~(/\ rpm1.filemd5s[i1 + 1] = rpm2.filemd5s[i2 + 1]
         /\ rpm1.filemodes[i1 + 1] = rpm2.filemodes[i2 + 1]
         /\ rpm1.fileusername[i1 + 1] = rpm2.fileusername[i2 + 1]
         /\ rpm1.filegroupname[i1 + 1] = rpm2.filegroupname[i2 + 1])
    /\ ~(FileColor(rpm1, i1) # FileColor(rpm2, i2))

\* checkDeps: the print for (rpm1, i1) and (rpm2, i2) is reached
FileConflict(rpm1, i1, rpm2, i2) ==
    /\ ~(/\ rpm1.filemd5s[i1 + 1] = rpm2.filemd5s[i2 + 1]
         /\ rpm1.filemodes[i1 + 1] = rpm2.filemodes[i2 + 1]
         /\ rpm1.fileusername[i1 + 1] = rpm2.fileusername[i2 + 1]
         /\ rpm1.filegroupname[i1 + 1] = rpm2.filegroupname[i2 + 1])
    /\ ~(/\ FileColor(rpm1, i1) # 0
         /\ HasTag(rpm2, "filecolors") /\ rpm2.filecolors # <<>>
         /\ FileColor(rpm2, i2) # 0
         /\ FileColor(rpm1, i1) # FileColor(rpm2, i2))

\* for j in xrange(len(s) - 1): for k in xrange(j + 1, len(s)): the (j, k)
\* (1-based) that reach the print
ConflictPairs(s, pkgs) ==
    {jk \in (1..Len(s)) \X (1..Len(s)) :
        /\ jk[1] < jk[2]
        /\ FileConflict(pkgs[s[jk[1]][1]], s[jk[1]][2], pkgs[s[jk[2]][1]], s[jk[2]][2])}

\* checkDeps: the "fileconflict for" lines, (path, rpm1, rpm2) each
checkDepsFileconflicts(self, pkgs) ==
    IF ~self.filenames_list.checkfileconflicts THEN {}
    ELSE LET path == self.filenames_list.path
         IN  UNION {UNION {{<<dirname \o basename, path[dirname][basename][jk[1]][1],
                              path[dirname][basename][jk[2]][1]>> :
                                jk \in ConflictPairs(path[dirname][basename], pkgs)}
                           : basename \in DOMAIN path[dirname]}
                    : dirname \in DOMAIN path}

(***************************************************************************)
(* The resolver under test: Init draws a requirement and a resolver, or    *)
(* the packages of a resolver whose files checkDeps compares.              *)
(***************************************************************************)
\* "/a", "a"
ReqNames == {<<ChSlash, ChA>>, <<ChA>>}

\* the provides table knows one name
ResolverProvides ==
    {[x \in {name} |-> l] : name \in ReqNames,
                            l \in UNION {[1..k -> ProvideEntries] : k \in 0..MaxProvides}}

\* the packages with files among the owners of the provides
FilePkgs == {pkg \in IndexPkgs : pkg.name \in Owners}

\* resolver.addPkg for each package of the list
RECURSIVE AddAll(_, _, _)
AddAll(self, pkgs, k) ==
    IF k > Len(pkgs) THEN self ELSE AddAll(FilenamesList_addPkg(self, pkgs[k]), pkgs, k + 1)

\* the filename index after adding the packages of S, in the order of their names
IndexOf(S, checkfileconflicts) ==
    AddAll([checkfileconflicts |-> checkfileconflicts, path |-> EmptyDict],
           (IF \E pkg \in S : pkg.name = "p1" THEN <<CHOOSE pkg \in S : pkg.name = "p1">> ELSE <<>>)
           \o (IF \E pkg \in S : pkg.name = "p2" THEN <<CHOOSE pkg \in S : pkg.name = "p2">> ELSE <<>>)
           \o (IF \E pkg \in S : pkg.name = "p3" THEN <<CHOOSE pkg \in S : pkg.name = "p3">> ELSE <<>>),
           1)

Resolvers ==
    {[provides_list |-> t, filenames_list |-> IndexOf(S, c)] :
        t \in ResolverProvides, S \in SUBSET FilePkgs, c \in BOOLEAN}

\* md5sum, mode, user, group of a file: all four, or all but one, as in "same"
FileAttrs ==
    {[md5 |-> "m1", mode |-> 33188, user |-> "root", group |-> "root"],
     [md5 |-> "m2", mode |-> 33188, user |-> "root", group |-> "root"],
     [md5 |-> "m1", mode |-> 33261, user |-> "root", group |-> "root"],
     [md5 |-> "m1", mode |-> 33188, user |-> "bin", group |-> "root"],
     [md5 |-> "m1", mode |-> 33188, user |-> "root", group |-> "bin"]}

\* filecolors of a file: no tag (-1), 0, 1 (elf32), 2 (elf64)
FileColors == {-1, 0, 1, 2}

\* a package with the file /a of these tags; lead files /b come before it
ConflictPkg(name, lead, a, color) ==
    LET n == lead + 1
        tags == [name |-> name,
                 basenames |-> [i \in 1..n |-> IF i = n THEN <<ChA>> ELSE <<ChB>>],
                 dirindexes |-> [i \in 1..n |-> 0],
                 dirnames |-> <<DirRoot>>,
                 filemd5s |-> [i \in 1..n |-> IF i = n THEN a.md5 ELSE "m0"],
                 filemodes |-> [i \in 1..n |-> IF i = n THEN a.mode ELSE 33188],
                 fileusername |-> [i \in 1..n |-> IF i = n THEN a.user ELSE "root"],
                 filegroupname |-> [i \in 1..n |-> IF i = n THEN a.group ELSE "root"]]
    IN  IF color = -1 THEN tags
        ELSE [x \in DOMAIN tags \cup {"filecolors"} |->
                 IF x = "filecolors" THEN [i \in 1..n |-> IF i = n THEN color ELSE 0]
                 ELSE tags[x]]

\* most packages that own /a
MaxConflictPkgs == 3

ConflictNames == <<"p1", "p2", "p3", "p4">>

\* the list of packages p1, p2, .. with these tags of /a: p2 has /b before /a
ConflictList(f) ==
    [k \in DOMAIN f |-> ConflictPkg(ConflictNames[k], IF k = 2 THEN 1 ELSE 0, f[k][1], f[k][2])]

InitResolver ==
    /\ \/ arg \in [fn : {"RpmResolver.searchDependency", "RpmDatabase.searchDependency"},
                      self : Resolvers, name : ReqNames, flag : QueryFlags, version : QueryVersions]
       \/ \E n \in 2..MaxConflictPkgs, c \in BOOLEAN :
              \E f \in [1..n -> FileAttrs \X FileColors] :
                 arg = [fn |-> "checkDeps", rpms |-> ConflictList(f), checkfileconflicts |-> c]
    /\ res = NoRes
    /\ pc = "call"
    /\ OrderIdle
    /\ CpioIdle
    /\ IndexIdle
    /\ BatchIdle
    /\ InstIdle

CallResolverSearchDependency ==
    /\ arg.fn = "RpmResolver.searchDependency"
    /\ pc = "call"
    /\ pc' = "ret"
    /\ res' = RpmResolver_searchDependency(arg.self, arg.name, arg.flag, arg.version)
    /\ UNCHANGED arg
    /\ UNCHANGED orderVars
    /\ UNCHANGED cpioVars
    /\ UNCHANGED <<indexVars, batchVars, instVars>>

CallDatabaseSearchDependency ==
    /\ arg.fn = "RpmDatabase.searchDependency"
    /\ pc = "call"
    /\ pc' = "ret"
    /\ res' = RpmDatabase_searchDependency(arg.self, arg.name, arg.flag, arg.version)
    /\ UNCHANGED arg
    /\ UNCHANGED orderVars
    /\ UNCHANGED cpioVars
    /\ UNCHANGED <<indexVars, batchVars, instVars>>

\* checkDeps on RpmResolver(rpms, checkfileconflicts)
CallCheckDeps ==
    /\ arg.fn = "checkDeps"
    /\ pc = "call"
    /\ pc' = "ret"
    /\ res' = checkDepsFileconflicts(
                  [provides_list |-> EmptyDict,
                   filenames_list |-> AddAll([checkfileconflicts |-> arg.checkfileconflicts,
                                              path |-> EmptyDict], arg.rpms, 1)],
                  [name \in {arg.rpms[k].name : k \in 1..Len(arg.rpms)} |->
                      CHOOSE pkg \in SeqToSet(arg.rpms) : pkg.name = name])
    /\ UNCHANGED arg
    /\ UNCHANGED orderVars
    /\ UNCHANGED cpioVars
    /\ UNCHANGED <<indexVars, batchVars, instVars>>

NextResolver == CallResolverSearchDependency \/ CallDatabaseSearchDependency \/ CallCheckDeps

SpecResolver == InitResolver /\ [][NextResolver]_vars

(***************************************************************************)
(* Claims on the resolver.                                                 *)
(***************************************************************************)
\* C16: for a requirement whose name starts with "/", the result of either
\* searchDependency holds every owner of the path in the filename index,
\* whatever the flag and the version.
C16_FileOwnersFound ==
    ((Returned("RpmResolver.searchDependency") \/ Returned("RpmDatabase.searchDependency"))
     /\ arg.name[1] = ChSlash) =>
        \A o \in SeqToSet(FilenamesList_searchDependency(arg.self.filenames_list, arg.name)) :
            InSeq(o, res)

\* the tags of file /a of package k of the list
C18_Attr(k, tag) == arg.rpms[k][tag][Len(arg.rpms[k][tag])]

C18_Color(k) == IF HasTag(arg.rpms[k], "filecolors") THEN C18_Attr(k, "filecolors") ELSE 0

\* no conflict: the four tags agree, or both colors are non-zero and differ
C18_NoConflict(j, k) ==
    \/ /\ C18_Attr(j, "filemd5s") = C18_Attr(k, "filemd5s")
       /\ C18_Attr(j, "filemodes") = C18_Attr(k, "filemodes")
       /\ C18_Attr(j, "fileusername") = C18_Attr(k, "fileusername")
       /\ C18_Attr(j, "filegroupname") = C18_Attr(k, "filegroupname")
    \/ /\ C18_Color(j) # 0
       /\ C18_Color(k) # 0
       /\ C18_Color(j) # C18_Color(k)

\* C18: of the owners of /a, checkDeps reports exactly the pairs that neither
\* agree on md5sum, mode, user and group nor carry differing non-zero colors.
C18_FileConflicts ==
    (Returned("checkDeps") /\ arg.checkfileconflicts) =>
        res = {<<<<ChSlash, ChA>>, arg.rpms[jk[1]].name, arg.rpms[jk[2]].name>> :
                   jk \in {x \in (1..Len(arg.rpms)) \X (1..Len(arg.rpms)) :
                              x[1] < x[2] /\ ~C18_NoConflict(x[1], x[2])}}

\* three owners: p1 and p2 differ in md5sum with colors 1 and 2, p3 is colorless
\* and differs from both: p1-p3 and p2-p3 are reported, p1-p2 is not
C18_Witness ==
    /\ Returned("checkDeps")
    /\ arg.checkfileconflicts
    /\ Len(arg.rpms) = 3
    /\ C18_Attr(1, "filemd5s") # C18_Attr(2, "filemd5s")
    /\ C18_Color(1) = 1
    /\ C18_Color(2) = 2
    /\ ~HasTag(arg.rpms[3], "filecolors")
    /\ res = {<<<<ChSlash, ChA>>, "p1", "p3">>, <<<<ChSlash, ChA>>, "p2", "p3">>}

(***************************************************************************)
(* Reading a batch of package files.  A file is described by what is       *)
(* wrong with it; readHeader is modelled by what it prints and how it      *)
(* ends for each.                                                          *)
(***************************************************************************)
\* most files of a batch
MaxBatch == 3

\* a sound file; the first four bytes of the lead are not the rpm magic; the
\* magic of an index is wrong; indexNo is 0; an index entry has a type id that
\* __parseIndex does not know; an index entry has a tag the registry does not
\* know; the sha1 or md5 digest in the signature is not the digest of the data
FileDefects ==
    {"ok", "no rpm magic", "bad index magic", "index count 0", "unknown type", "unknown tag",
     "wrong digest"}

\* readHeader(rpmsigtag, hdrtags) of a ReadRpm(filename, verify): what it prints
\* with printErr and how it ends: "1", "None", or the exception that leaves it
readHeader(defect, verify) ==
    IF defect = "no rpm magic"
    THEN [printErr |-> {"no rpm magic found"}, ends |-> "1"]
    ELSE IF defect \in {"bad index magic", "index count 0"}
    THEN [printErr |-> {}, ends |-> "ValueError"]
    ELSE IF defect = "unknown type"
    THEN [printErr |-> {}, ends |-> "ValueError"]
    ELSE IF defect = "unknown tag" /\ verify
    THEN [printErr |-> {"writeHeader() would write a different normal header"},
          ends |-> "KeyError"]
    ELSE IF defect = "wrong digest" /\ verify
    THEN [printErr |-> {"wrong sha1"}, ends |-> "1"]
    ELSE [printErr |-> {}, ends |-> "None"]

Batches == UNION {[1..n -> FileDefects] : n \in 1..MaxBatch}

InitBatch ==
    /\ arg \in [fn : {"readRpm"}, filenames : Batches, verify : {FALSE}]
               \cup [fn : {"main"}, filenames : Batches, verify : BOOLEAN]
    /\ res = NoRes
    /\ pc = "loop"
    /\ file_i = 1
    /\ read_rpms = <<>>
    /\ printed = {}
    /\ OrderIdle
    /\ CpioIdle
    /\ IndexIdle
    /\ InstIdle

\* readRpm: one turn of for filename in filenames
ReadRpmTurn ==
    /\ arg.fn = "readRpm"
    /\ pc = "loop"
    /\ file_i <= Len(arg.filenames)
    /\ LET r == readHeader(arg.filenames[file_i], FALSE)
       IN  /\ printed' = printed \cup {<<file_i, e>> : e \in r.printErr}
                                 \cup (IF r.ends = "1" THEN {<<file_i, "Cannot read">>} ELSE {})
           /\ read_rpms' = IF r.ends = "None" THEN Append(read_rpms, file_i) ELSE read_rpms
           /\ pc' = IF r.ends \in {"1", "None"} THEN "loop" ELSE "raised"
           /\ file_i' = IF r.ends \in {"1", "None"} THEN file_i + 1 ELSE file_i
    /\ UNCHANGED <<arg, res>>
    /\ UNCHANGED <<orderVars, cpioVars, indexVars, instVars>>

\* main: one turn of the loop that calls verifyRpm
VerifyRpmTurn ==
    /\ arg.fn = "main"
    /\ pc = "loop"
    /\ file_i <= Len(arg.filenames)
    /\ LET r == readHeader(arg.filenames[file_i], arg.verify)
       IN  /\ printed' = printed \cup {<<file_i, e>> : e \in r.printErr}
           /\ read_rpms' = IF r.ends = "None" THEN Append(read_rpms, file_i) ELSE read_rpms
           /\ pc' = IF r.ends \in {"1", "None"} THEN "loop" ELSE "raised"
           /\ file_i' = IF r.ends \in {"1", "None"} THEN file_i + 1 ELSE file_i
    /\ UNCHANGED <<arg, res>>
    /\ UNCHANGED <<orderVars, cpioVars, indexVars, instVars>>

\* the loop is through: readRpm returns rpms, main goes on
BatchDone ==
    /\ arg.fn \in {"readRpm", "main"}
    /\ pc = "loop"
    /\ file_i > Len(arg.filenames)
    /\ pc' = "ret"
    /\ res' = read_rpms
    /\ UNCHANGED arg
    /\ UNCHANGED <<orderVars, cpioVars, indexVars, batchVars, instVars>>

NextBatch == ReadRpmTurn \/ VerifyRpmTurn \/ BatchDone

SpecBatch == InitBatch /\ [][NextBatch]_vars

(***************************************************************************)
(* Claims on the batch.                                                    *)
(***************************************************************************)
\* the defect of file k is one the run looks for: digests and the registry
\* of tags are looked at when verifying only
C14_LookedFor(k) ==
    /\ arg.filenames[k] # "ok"
    /\ arg.filenames[k] \in {"unknown tag", "wrong digest"} => arg.verify

\* C14: a file with an error ends only its own processing, with a diagnostic
\* naming it: the batch is not left by an exception, and each file the loop is
\* past is either read or has a diagnostic.
C14_BatchContinues ==
    arg.fn \in {"readRpm", "main"} =>
        /\ pc # "raised"
        /\ \A k \in 1..(file_i - 1) :
               IF C14_LookedFor(k)
               THEN ~InSeq(k, read_rpms) /\ \E d \in printed : d[1] = k
               ELSE InSeq(k, read_rpms)

(***************************************************************************)
(* Headers.  A header is the index (16 bytes an entry: tag, type, offset,  *)
(* count as big-endian 32-bit numbers) and the store.  A decoded value is  *)
(* [py, v]: a str (the bytes), a list of str or a tuple of numbers.        *)
(***************************************************************************)
RPM_INT16 == 3
RPM_INT32 == 4
RPM_STRING == 6
RPM_BIN == 7
RPM_STRING_ARRAY == 8
RPM_I18NSTRING == 9
RPM_GROUP == 13

\* seven entries of rpmtag: tagname => (tag, type)
rpmtag ==
    [immutable |-> <<63, RPM_BIN>>, name |-> <<1000, RPM_STRING>>,
     group |-> <<1016, RPM_GROUP>>, filemodes |-> <<1030, RPM_INT16>>,
     dirindexes |-> <<1116, RPM_INT32>>, basenames |-> <<1117, RPM_STRING_ARRAY>>,
     dirnames |-> <<1118, RPM_STRING_ARRAY>>]

\* dorpmtag.has_key(tag)
has_key(taghash, tag) == \E n \in DOMAIN taghash : taghash[n][1] = tag

\* dorpmtag[tag][4]
nametagOf(taghash, tag) == CHOOSE n \in DOMAIN taghash : taghash[n][1] = tag

\* pack("!I", n)
PackI(n) == <<(n \div 16777216) % 256, (n \div 65536) % 256, (n \div 256) % 256, n % 256>>

\* unpack("!I", b)
UnpackI(b) == b[1] * 16777216 + b[2] * 65536 + b[3] * 256 + b[4]

\* pack("!4I", tag, ttype, offset, count)
Pack4I(e) == PackI(e[1]) \o PackI(e[2]) \o PackI(e[3]) \o PackI(e[4])

\* unpack("!4I", fmt[i:i + 16]) for entry k (1-based)
Unpack4I(fmt, k) ==
    [n \in 1..4 |-> UnpackI(SubSeq(fmt, 16 * (k - 1) + 4 * (n - 1) + 1, 16 * (k - 1) + 4 * n))]

\* s[i:j] of a str, i and j cut to its length
PySlice(s, i, j) ==
    LET jj == IF j > Len(s) THEN Len(s) ELSE j
    IN  IF i >= jj THEN <<>> ELSE SubSeq(s, i + 1, jj)

\* the for loop over count strings: [raised, v]
RECURSIVE ReadStrings(_, _, _, _)
ReadStrings(fmt2, offset, count, data) ==
    IF count = 0 THEN [raised |-> FALSE, v |-> [py |-> "list", v |-> data]]
    ELSE LET end == Find(fmt2, 0, offset)
         IN  IF end = -1 THEN [raised |-> TRUE]
             ELSE ReadStrings(fmt2, end + 1, count - 1, Append(data, PySlice(fmt2, offset, end)))

\* the value of an index entry: [raised, v]; fmt2.index and unpack raise
DecodeEntry(ttype, fmt2, offset, count) ==
    IF ttype = RPM_STRING_ARRAY \/ ttype = RPM_I18NSTRING
    THEN ReadStrings(fmt2, offset, count, <<>>)
    ELSE IF ttype = RPM_STRING
    THEN IF Find(fmt2, 0, offset) = -1 THEN [raised |-> TRUE]
         ELSE [raised |-> FALSE,
               v |-> [py |-> "str", v |-> PySlice(fmt2, offset, Find(fmt2, 0, offset))]]
    ELSE IF ttype = RPM_INT16
    THEN IF offset + 2 * count > Len(fmt2) THEN [raised |-> TRUE]
         ELSE [raised |-> FALSE,
               v |-> [py |-> "tuple",
                      v |-> [i \in 1..count |->
                                fmt2[offset + 2 * i - 1] * 256 + fmt2[offset + 2 * i]]]]
    ELSE IF ttype = RPM_BIN
    THEN [raised |-> FALSE, v |-> [py |-> "str", v |-> PySlice(fmt2, offset, offset + count)]]
    ELSE [raised |-> TRUE]

\* == of two decoded values: a str, a list and a tuple are never equal
PyEqual(a, b) == a.py = b.py /\ a.v = b.v

\* the name a repeated tag is bound to: its alias, or None if it is dropped
DuplicateName(nametag) ==
    IF nametag = "dirindexes" THEN "dirindexes2"
    ELSE IF nametag = "dirnames" THEN "dirnames2"
    ELSE IF nametag = "basenames" THEN "basenames2"
    ELSE None

\* the for loop of __parseIndex from entry k on; st is [hdr, rpmgroup, raised,
\* printed], printed the tags of the "duplicate tag" diagnostics
RECURSIVE parseIndexLoop(_, _, _, _, _, _, _)
parseIndexLoop(self, indexNo, fmt, fmt2, dorpmtag, k, st) ==
    IF k > indexNo \/ st.raised THEN st
    ELSE LET e == Unpack4I(fmt, k)
             tag == e[1]
             ttype == e[2]
             data == DecodeEntry(ttype, fmt2, e[3], e[4])
         IN  IF ~has_key(dorpmtag, tag)
             THEN parseIndexLoop(self, indexNo, fmt, fmt2, dorpmtag, k + 1, st)
             ELSE IF data.raised
             THEN [st EXCEPT !.raised = TRUE]
             ELSE LET nametag == nametagOf(dorpmtag, tag)
                      rpmgroup == IF nametag = "group" THEN ttype ELSE st.rpmgroup
                  IN  IF nametag \in DOMAIN st.hdr
                      THEN IF DuplicateName(nametag) # None
                           THEN parseIndexLoop(self, indexNo, fmt, fmt2, dorpmtag, k + 1,
                                    [st EXCEPT !.rpmgroup = rpmgroup,
                                               !.hdr = DictSet(st.hdr, DuplicateName(nametag),
                                                               data.v)])
                           ELSE parseIndexLoop(self, indexNo, fmt, fmt2, dorpmtag, k + 1,
                                    [st EXCEPT !.rpmgroup = rpmgroup,
                                               !.printed =
                                                   IF self.strict \/ ~PyEqual(st.hdr[nametag], data.v)
                                                   THEN Append(@, tag) ELSE @])
                      ELSE parseIndexLoop(self, indexNo, fmt, fmt2, dorpmtag, k + 1,
                                          [st EXCEPT !.rpmgroup = rpmgroup,
                                                     !.hdr = DictSet(st.hdr, nametag, data.v)])

\* rpmgroup 0 is None
parseIndex(self, indexNo, fmt, fmt2, dorpmtag) ==
    parseIndexLoop(self, indexNo, fmt, fmt2, dorpmtag, 1,
                   [hdr |-> EmptyDict, rpmgroup |-> 0, raised |-> FALSE, printed |-> <<>>])

\* "%s" % n for a number
RECURSIVE DecimalDigits(_)
DecimalDigits(n) ==
    IF n < 10 THEN <<ChZero + n>> ELSE Append(DecimalDigits(n \div 10), ChZero + (n % 10))

\* the bytes of repr(value), which the model does not spell out: no store has them
ReprBytes == <<-1>>

\* "%s\x00" % x for one element of a value: a str of the list, a character of
\* the str, a number of the tuple
ElementBytes(value, i) ==
    IF value.py = "list" THEN Append(value.v[i], 0)
    ELSE IF value.py = "str" THEN <<value.v[i], 0>>
    ELSE Append(DecimalDigits(value.v[i]), 0)

RECURSIVE JoinElements(_, _)
JoinElements(value, i) ==
    IF i > Len(value.v) THEN <<>> ELSE ElementBytes(value, i) \o JoinElements(value, i + 1)

RECURSIVE PackH(_, _)
PackH(v, i) ==
    IF i > Len(v) THEN <<>> ELSE <<(v[i] \div 256) % 256, v[i] % 256>> \o PackH(v, i + 1)

\* the type writeHeader writes a tag with
WrittenType(taghash, tagname, rpmgroup) ==
    IF taghash[tagname][2] = RPM_GROUP
    THEN (IF rpmgroup # 0 THEN rpmgroup ELSE RPM_I18NSTRING)
    ELSE taghash[tagname][2]

\* data, count and pad of a tag: [raised, data, count, pad]; pack, the % of a
\* tuple and the join of the store raise on a value of the wrong kind
EncodeValue(ttype, value, offset) ==
    IF ttype = RPM_STRING
    THEN IF value.py = "str"
         THEN [raised |-> FALSE, data |-> Append(value.v, 0), count |-> 1, pad |-> 0]
         ELSE IF value.py = "list"
         THEN [raised |-> FALSE, data |-> Append(ReprBytes, 0), count |-> 1, pad |-> 0]
         ELSE IF Len(value.v) = 1
         THEN [raised |-> FALSE, data |-> Append(DecimalDigits(value.v[1]), 0), count |-> 1,
               pad |-> 0]
         ELSE [raised |-> TRUE]
    ELSE IF ttype = RPM_STRING_ARRAY \/ ttype = RPM_I18NSTRING
    THEN [raised |-> FALSE, data |-> JoinElements(value, 1), count |-> Len(value.v), pad |-> 0]
    ELSE IF ttype = RPM_BIN
    THEN IF value.py = "str"
         THEN [raised |-> FALSE, data |-> value.v, count |-> Len(value.v), pad |-> 0]
         ELSE [raised |-> TRUE]
    ELSE IF ttype = RPM_INT16
    THEN IF value.py = "tuple"
         THEN [raised |-> FALSE, data |-> PackH(value.v, 1), count |-> Len(value.v),
               pad |-> (2 - (offset % 2)) % 2]
         ELSE [raised |-> TRUE]
    ELSE [raised |-> TRUE]

\* stags.sort(): the tag names by tag number
RECURSIVE SortTags(_, _)
SortTags(taghash, names) ==
    IF names = {} THEN <<>>
    ELSE LET first == CHOOSE n \in names : \A o \in names : taghash[n][1] <= taghash[o][1]
         IN  <<first>> \o SortTags(taghash, names \ {first})

ZeroBytes(n) == [i \in 1..n |-> 0]

\* the for loop of writeHeader from tag k of stags1 on; st is [offset, store,
\* indexdata, raised]; the index of the region tag goes in front
RECURSIVE writeHeaderLoop(_, _, _, _, _, _, _)
writeHeaderLoop(tags, taghash, region, rpmgroup, stags1, k, st) ==
    IF k > Len(stags1) \/ st.raised THEN st
    ELSE LET tagname == stags1[k]
             tagnum == taghash[tagname][1]
             ttype == WrittenType(taghash, tagname, rpmgroup)
             enc == EncodeValue(ttype, tags[tagname], st.offset)
         IN  IF enc.raised THEN [st EXCEPT !.raised = TRUE]
             ELSE LET offset == st.offset + enc.pad
                      index == Pack4I(<<tagnum, ttype, offset, enc.count>>)
                  IN  writeHeaderLoop(tags, taghash, region, rpmgroup, stags1, k + 1,
                          [offset |-> offset + Len(enc.data),
                           store |-> st.store \o ZeroBytes(enc.pad) \o enc.data,
                           indexdata |-> IF tagname = region THEN index \o st.indexdata
                                         ELSE st.indexdata \o index,
                           raised |-> FALSE])

\* four entries of rpmdbtag that rpmtag does not have
rpmdbtagOnly ==
    [install_gpg |-> <<262, RPM_BIN>>, install_badsha1_1 |-> <<264, RPM_STRING>>,
     install_sha1header |-> <<269, RPM_STRING>>, instprefixes |-> <<1099, RPM_STRING_ARRAY>>]

\* the keys of install_keys
install_keys == DOMAIN rpmdbtagOnly \cup {"dirindexes2", "dirnames2", "basenames2"}

\* rpmdbtag: its own entries, those of rpmtag, and the three aliases
rpmdbtag ==
    [n \in DOMAIN rpmdbtagOnly \cup DOMAIN rpmtag \cup {"dirindexes2", "dirnames2", "basenames2"} |->
        IF n \in DOMAIN rpmdbtagOnly THEN rpmdbtagOnly[n]
        ELSE IF n \in DOMAIN rpmtag THEN rpmtag[n]
        ELSE IF n = "dirindexes2" THEN <<1116, RPM_INT32>>
        ELSE IF n = "dirnames2" THEN <<1118, RPM_STRING_ARRAY>>
        ELSE <<1117, RPM_STRING_ARRAY>>]

\* the first loop of writeHeader: the names that go to stags1, stags2, stags3
Stags3(tags, region) == {n \in DOMAIN tags : n = region}

Stags2(tags, region, skip_tags, useinstall) ==
    {n \in DOMAIN tags : n # region /\ n \notin skip_tags /\ useinstall /\ n \in install_keys}

Stags1(tags, region, skip_tags, useinstall) ==
    {n \in DOMAIN tags : n # region /\ n \notin skip_tags /\ ~(useinstall /\ n \in install_keys)}

\* writeHeader with the index of the region tag at the end
writeHeaderRegionLast(tags, taghash, region, skip_tags, useinstall, rpmgroup) ==
    LET stags1 == SortTags(taghash, Stags1(tags, region, skip_tags, useinstall))
                  \o SortTags(taghash, Stags3(tags, region))
                  \o SortTags(taghash, Stags2(tags, region, skip_tags, useinstall))
        st == writeHeaderLoop(tags, taghash, "", rpmgroup, stags1, 1,
                              [offset |-> 0, store |-> <<>>, indexdata |-> <<>>, raised |-> FALSE])
    IN  IF st.raised THEN [raised |-> TRUE]
        ELSE [raised |-> FALSE, out |-> <<Len(stags1), Len(st.store), st.indexdata, st.store>>]

\* writeHeader(tags, taghash, region, skip_tags, useinstall, rpmgroup)
writeHeader(tags, taghash, region, skip_tags, useinstall, rpmgroup) ==
    LET stags1 == SortTags(taghash, Stags1(tags, region, skip_tags, useinstall))
                  \o SortTags(taghash, Stags3(tags, region))
                  \o SortTags(taghash, Stags2(tags, region, skip_tags, useinstall))
        st == writeHeaderLoop(tags, taghash, region, rpmgroup, stags1, 1,
                              [offset |-> 0, store |-> <<>>, indexdata |-> <<>>, raised |-> FALSE])
    IN  IF st.raised THEN [raised |-> TRUE]
        ELSE [raised |-> FALSE, out |-> <<Len(stags1), Len(st.store), st.indexdata, st.store>>]

\* __verifyWriteHeader after __parseIndex: what writeHeader gives for the
\* parsed header, or which of the two raised
verifyWriteHeader(indexNo, fmt, fmt2, useinstall) ==
    LET p == parseIndex([strict |-> FALSE], indexNo, fmt, fmt2, rpmtag)
        w == writeHeader(p.hdr, rpmtag, "immutable", {}, useinstall, p.rpmgroup)
    IN  IF p.raised THEN [raised |-> "parseIndex"]
        ELSE IF w.raised THEN [raised |-> "writeHeader"]
        ELSE [raised |-> "none", out |-> w.out]

(***************************************************************************)
(* The header functions under test: Init draws the index entries and the   *)
(* store of a header, the call parses it and writes it again.              *)
(***************************************************************************)
\* most index entries, longest store, largest count of an entry
MaxEntries == 2

MaxStore == 4

MaxCount == 2

\* immutable, name, group and filemodes, and 999, which is no tag of rpmtag
IndexTags == {rpmtag[n][1] : n \in {"immutable", "name", "group", "filemodes"}} \cup {999}

DiskTypes == {RPM_INT16, RPM_STRING, RPM_BIN, RPM_STRING_ARRAY}

\* "\x00" and "a"
StoreBytes == {0, ChA}

IndexEntries == IndexTags \X DiskTypes \X (0..(MaxStore - 1)) \X (1..MaxCount)

RECURSIVE PackIndex(_)
PackIndex(index) == IF index = <<>> THEN <<>> ELSE Pack4I(Head(index)) \o PackIndex(Tail(index))

InitHeader ==
    /\ arg \in [fn : {"verifyWriteHeader"},
                index : UNION {[1..n -> IndexEntries] : n \in 1..MaxEntries},
                store : UNION {[1..n -> StoreBytes] : n \in 1..MaxStore}]
    /\ res = NoRes
    /\ pc = "call"
    /\ OrderIdle
    /\ CpioIdle
    /\ IndexIdle
    /\ BatchIdle
    /\ InstIdle

CallVerifyWriteHeader ==
    /\ arg.fn = "verifyWriteHeader"
    /\ pc = "call"
    /\ pc' = "ret"
    /\ res' = verifyWriteHeader(Len(arg.index), PackIndex(arg.index), arg.store, TRUE)
    /\ UNCHANGED arg
    /\ UNCHANGED orderVars
    /\ UNCHANGED cpioVars
    /\ UNCHANGED <<indexVars, batchVars, instVars>>

NextHeader == CallVerifyWriteHeader

SpecHeader == InitHeader /\ [][NextHeader]_vars

(***************************************************************************)
(* Claims on the headers.                                                  *)
(***************************************************************************)
\* (indexNo, storeSize, fmt, fmt2) of the header that was read
C13_Original == <<Len(arg.index), Len(arg.store), PackIndex(arg.index), arg.store>>

C13_RegionTag == rpmtag["immutable"][1]

C13_OnlyRegistryTags == \A k \in 1..Len(arg.index) : has_key(rpmtag, arg.index[k][1])

\* the region entry first, then the tags in ascending order
C13_CanonicalOrder ==
    \A j, k \in 1..Len(arg.index) :
        j < k => /\ arg.index[k][1] # C13_RegionTag
                 /\ arg.index[j][1] # C13_RegionTag => arg.index[j][1] < arg.index[k][1]

\* the offset of a 16-bit entry is even
C13_Aligned == \A k \in 1..Len(arg.index) : arg.index[k][2] = RPM_INT16 => arg.index[k][3] % 2 = 0

C13_RegistryTypes ==
    \A k \in 1..Len(arg.index) :
        /\ arg.index[k][1] # rpmtag["group"][1] =>
               arg.index[k][2] = rpmtag[nametagOf(rpmtag, arg.index[k][1])][2]
        /\ arg.index[k][2] = RPM_STRING => arg.index[k][4] = 1

\* the end of the n strings from offset on (the offset behind the last "\x00"), or -1
RECURSIVE C13_StringsEnd(_, _)
C13_StringsEnd(offset, n) ==
    IF n = 0 THEN offset
    ELSE IF Find(arg.store, 0, offset) = -1 THEN -1
    ELSE C13_StringsEnd(Find(arg.store, 0, offset) + 1, n - 1)

\* the end of the data of an entry in the store, or -1 if the store is too short
C13_DataEnd(e) ==
    IF e[2] = RPM_STRING THEN C13_StringsEnd(e[3], 1)
    ELSE IF e[2] = RPM_STRING_ARRAY THEN C13_StringsEnd(e[3], e[4])
    ELSE IF e[3] + (IF e[2] = RPM_INT16 THEN 2 ELSE 1) * e[4] > Len(arg.store) THEN -1
    ELSE e[3] + (IF e[2] = RPM_INT16 THEN 2 ELSE 1) * e[4]

\* the entries in the order of their data: the region entry last
C13_StoreOrder ==
    IF arg.index[1][1] = C13_RegionTag THEN Append(Tail(arg.index), arg.index[1]) ELSE arg.index

\* from position pos on the store is the data of the entries k, k + 1, .. one
\* behind the other, with zero bytes up to the next even offset before 16-bit
\* data, and nothing behind the last
RECURSIVE C13_PackedFrom(_, _)
C13_PackedFrom(k, pos) ==
    IF k > Len(C13_StoreOrder) THEN pos = Len(arg.store)
    ELSE LET e == C13_StoreOrder[k]
             pad == IF e[2] = RPM_INT16 THEN pos % 2 ELSE 0
         IN  /\ e[3] = pos + pad
             /\ \A i \in (pos + 1)..(pos + pad) : i <= Len(arg.store) /\ arg.store[i] = 0
             /\ C13_DataEnd(e) # -1
             /\ C13_PackedFrom(k + 1, C13_DataEnd(e))

C13_WitnessPadded ==
    /\ Returned("verifyWriteHeader")
    /\ arg.index = <<<<1000, RPM_STRING, 0, 1>>, <<1030, RPM_INT16, 2, 1>>>>
    /\ arg.store = <<0, 0, 0, ChA>>
    /\ res.raised = "none"
    /\ res.out = C13_Original

(***************************************************************************)
(* The derived queries of a package record.  inst is the ReadRpm: verify,  *)
(* issrc and hdr, the decoded tags (a tag the header lacks is no field of  *)
(* hdr, self[tag] is then None).  A list that a tag is bound to is one     *)
(* object: a method that changes the list changes the tag.                 *)
(***************************************************************************)
\* self[key] != None
HasKey(self, key) == key \in DOMAIN self.hdr

\* [None] * n
Nones(n) == [i \in 1..n |-> None]

Min(a, b) == IF a < b THEN a ELSE b

\* __getDeps: zip(n, f, v), as long as the shortest of the three
getDeps(self, name, flags, version) ==
    IF ~HasKey(self, name) THEN <<>>
    ELSE LET n == self.hdr[name]
             f == IF HasKey(self, flags) THEN self.hdr[flags] ELSE Nones(Len(n))
             v == IF HasKey(self, version) THEN self.hdr[version] ELSE Nones(Len(n))
         IN  [i \in 1..Min(Len(n), Min(Len(f), Len(v))) |-> <<n[i], f[i], v[i]>>]

\* getEVR
getEVR(self) ==
    IF HasKey(self, "epoch")
    THEN EVRString(DecimalDigits(self.hdr.epoch[1]), self.hdr.version, self.hdr.release)
    ELSE self.hdr.version \o <<ChDash>> \o self.hdr.release

getProvides(self) ==
    LET provs == getDeps(self, "providename", "provideflags", "provideversion")
    IN  IF ~self.issrc THEN Append(provs, <<self.hdr.name, RPMSENSE_EQUAL, getEVR(self)>>)
        ELSE provs

getRequires(self) == getDeps(self, "requirename", "requireflags", "requireversion")

\* None where a list is looked for
NoList == <<"None">>

\* [ scripts[i] for i in index ]: the list, or the exception
Indirect(list, index) ==
    IF list = NoList THEN [raised |-> "TypeError"]
    ELSE IF \E k \in 1..Len(index) : index[k] >= Len(list) THEN [raised |-> "IndexError"]
    ELSE [raised |-> "none", list |-> [k \in 1..Len(index) |-> list[index[k] + 1]]]

\* [(n, f, v, progs.pop(0), scripts.pop(0)) for (n, f, v) in deps]: the tuples
\* made and what is left of the two lists when the loop ends or raises
RECURSIVE getTriggersPop(_, _, _, _, _)
getTriggersPop(deps, k, progs, scripts, ret) ==
    IF k > Len(deps) THEN [ret |-> ret, raised |-> "none", progs |-> progs, scripts |-> scripts]
    ELSE IF progs = NoList
         THEN [ret |-> <<>>, raised |-> "AttributeError", progs |-> progs, scripts |-> scripts]
    ELSE IF progs = <<>>
         THEN [ret |-> <<>>, raised |-> "IndexError", progs |-> progs, scripts |-> scripts]
    ELSE IF scripts = NoList
         THEN [ret |-> <<>>, raised |-> "AttributeError", progs |-> Tail(progs),
               scripts |-> scripts]
    ELSE IF scripts = <<>>
         THEN [ret |-> <<>>, raised |-> "IndexError", progs |-> Tail(progs), scripts |-> scripts]
    ELSE getTriggersPop(deps, k + 1, Tail(progs), Tail(scripts),
                        Append(ret, <<deps[k][1], deps[k][2], deps[k][3], Head(progs),
                                      Head(scripts)>>))

\* hdr with the list of a tag replaced by what the pops left of it
WithList(h, tag, list) == IF tag \in DOMAIN h THEN [h EXCEPT ![tag] = list] ELSE h

\* getTriggers: what it returns or raises, and the tags afterwards.  Without
\* triggerindex scripts and progs are the lists of the two tags themselves.
getTriggers(self) ==
    LET deps == getDeps(self, "triggername", "triggerflags", "triggerversion")
        scripts == IF HasKey(self, "triggerscripts") THEN self.hdr.triggerscripts ELSE NoList
        progs == IF HasKey(self, "triggerscriptprog") THEN self.hdr.triggerscriptprog ELSE NoList
    IN  IF deps = <<>> THEN [ret |-> <<>>, raised |-> "none", hdr |-> self.hdr]
        ELSE IF self.verify /\ (scripts = NoList \/ progs = NoList)
             THEN [ret |-> <<>>, raised |-> "TypeError", hdr |-> self.hdr]
        ELSE IF ~HasKey(self, "triggerindex")
             THEN LET r == getTriggersPop(deps, 1, progs, scripts, <<>>)
                  IN  [ret |-> r.ret, raised |-> r.raised,
                       hdr |-> WithList(WithList(self.hdr, "triggerscriptprog", r.progs),
                                        "triggerscripts", r.scripts)]
        ELSE LET s2 == Indirect(scripts, self.hdr.triggerindex)
                 p2 == Indirect(progs, self.hdr.triggerindex)
             IN  IF s2.raised # "none" THEN [ret |-> <<>>, raised |-> s2.raised, hdr |-> self.hdr]
                 ELSE IF p2.raised # "none"
                      THEN [ret |-> <<>>, raised |-> p2.raised, hdr |-> self.hdr]
                 ELSE LET r == getTriggersPop(deps, 1, p2.list, s2.list, <<>>)
                      IN  [ret |-> r.ret, raised |-> r.raised, hdr |-> self.hdr]

(***************************************************************************)
(* The record under test: Init draws its trigger tags, the calls are made  *)
(* in any order.                                                           *)
(***************************************************************************)
\* most triggers of a record, most calls made on it
MaxTriggers == 2

MaxCalls == 3

SeqsOf(S, lo, hi) == UNION {[1..n -> S] : n \in lo..hi}

\* a record with these trigger tags; <<>> for index, scripts or progs: no tag
TriggerPkg(names, index, scripts, progs) ==
    LET base == [name |-> <<ChA>>, version |-> <<ChOne>>, release |-> <<ChOne>>,
                 requirename |-> <<<<ChA>>>>, requireflags |-> <<0>>,
                 requireversion |-> <<<<>>>>]
        tags == [triggername |-> names, triggerflags |-> [i \in DOMAIN names |-> 0],
                 triggerversion |-> [i \in DOMAIN names |-> <<>>],
                 triggerindex |-> index, triggerscripts |-> scripts,
                 triggerscriptprog |-> progs]
        have == {t \in DOMAIN tags : tags[t] # <<>>}
    IN  [t \in DOMAIN base \cup have |-> IF t \in have THEN tags[t] ELSE base[t]]

InitTriggers ==
    /\ \E names \in SeqsOf({"t1", "t2"}, 0, MaxTriggers),
          index \in SeqsOf({0, 1}, 0, MaxTriggers),
          scripts \in SeqsOf({"s1", "s2"}, 0, MaxTriggers),
          progs \in SeqsOf({"sh"}, 0, MaxTriggers),
          verify \in BOOLEAN :
            inst = [verify |-> verify, issrc |-> FALSE,
                    hdr |-> TriggerPkg(names, index, scripts, progs)]
    /\ log = <<>>
    /\ pc = "call"
    /\ PureIdle
    /\ OrderIdle
    /\ CpioIdle
    /\ IndexIdle
    /\ BatchIdle

CallGetTriggers ==
    /\ pc = "call"
    /\ Len(log) < MaxCalls
    /\ LET r == getTriggers(inst)
       IN  /\ inst' = [inst EXCEPT !.hdr = r.hdr]
           /\ log' = Append(log, [call |-> "getTriggers", ret |-> r.ret, raised |-> r.raised])
    /\ UNCHANGED <<pureVars, pc, orderVars, cpioVars, indexVars, batchVars>>

CallGetProvides ==
    /\ pc = "call"
    /\ Len(log) < MaxCalls
    /\ log' = Append(log, [call |-> "getProvides", ret |-> getProvides(inst), raised |-> "none"])
    /\ UNCHANGED <<inst, pureVars, pc, orderVars, cpioVars, indexVars, batchVars>>

CallGetRequires ==
    /\ pc = "call"
    /\ Len(log) < MaxCalls
    /\ log' = Append(log, [call |-> "getRequires", ret |-> getRequires(inst), raised |-> "none"])
    /\ UNCHANGED <<inst, pureVars, pc, orderVars, cpioVars, indexVars, batchVars>>

NextTriggers == CallGetTriggers \/ CallGetProvides \/ CallGetRequires

SpecTriggers == InitTriggers /\ [][NextTriggers]_vars

(***************************************************************************)
(* Claims on the derived queries.                                          *)
(***************************************************************************)
\* C21: the queries leave the tags as they are: every getTriggers call on the
\* record returns what the first one returned, with or without triggerindex.
C21_SameTriggers ==
    \A i, j \in DOMAIN log :
        (log[i].call = "getTriggers" /\ log[j].call = "getTriggers") => log[i] = log[j]

\* C21, with triggerindex: the calls agree (the pops are made on copies)
C21_SameWithIndex ==
    ("triggerindex" \in DOMAIN inst.hdr) => C21_SameTriggers

(***************************************************************************)
(* Claims on breaking loops.                                               *)
(***************************************************************************)
\* the arcs <<node, next>> of a loop tuple
ArcsOf(loop) == {<<loop[j], loop[j + 1]>> : j \in 1..(Len(loop) - 1)}

ArcHasBit(R, a, bit) == BitAnd(R.hash[a[1]].pre[a[2]], bit) # 0

\* the arcs a pass of _breakupLoop that finds one chooses from: those without
\* HARD if there is one, else all
C22_Eligible(R, loop) ==
    LET soft == {a \in ArcsOf(loop) : ~ArcHasBit(R, a, HARD)}
    IN  IF soft # {} THEN soft ELSE ArcsOf(loop)

C22_Rule(R, loops, loop, a) ==
    /\ a \in C22_Eligible(R, loop)
    /\ ArcHasBit(R, a, VIRTUAL) <=> \E e \in C22_Eligible(R, loop) : ArcHasBit(R, e, VIRTUAL)
    /\ \A e \in C22_Eligible(R, loop) :
          (ArcHasBit(R, e, VIRTUAL) <=> ArcHasBit(R, a, VIRTUAL)) =>
              genCounter(loops, e[1], e[2]) <= genCounter(loops, a[1], a[2])

\* C22: whenever _genOrder is about to break a loop, for every list of loops
\* detectLoops can return and every loop sortLoops can put first, the arc that
\* breakupLoop drops is HARD only if every arc of the loop is, is VIRTUAL if
\* an arc it may choose is, and has the highest count among the arcs of its
\* kind; breakupLoop fails only on a loop without any arc.
C22_BreakupLoop ==
    pc = "loops" =>
        \A loops \in detectLoops(relations) :
            Len(loops) >= 1 =>
                \A sorted_loops \in sortLoops(relations, loops) :
                    LET arc == breakupLoop(relations, loops, sorted_loops[1])
                    IN  IF arc = NoArc THEN ArcsOf(sorted_loops[1]) = {}
                        ELSE C22_Rule(relations, loops, sorted_loops[1], arc)

\* breakupLoop has dropped a VIRTUAL arc (one that genRelations did not add)
\* and a HARD one (each package of a %pre requirement dropped its arc)
C22_Witness ==
    /\ pc = "separate"
    /\ \E a \in SeqToSet(FourPkgs) \X SeqToSet(FourPkgs) :
          WasDropped(a) /\ a \notin InitialArcs
    /\ \E req \in resolver :
          /\ req.f = RPMSENSE_SCRIPT_PRE
          /\ \E a \in ReqArcs(req) : WasDropped(a)

\* what the claim says of package x after the arc <<node, next>> is dropped
C23_ArcTo(x, node, next) ==
    /\ next \in DOMAIN relations'.hash[x].pre
    /\ IF next \in DOMAIN relations.hash[x].pre
       THEN relations'.hash[x].pre[next] = relations.hash[x].pre[next]
       ELSE /\ BitAnd(relations'.hash[x].pre[next], VIRTUAL) # 0
            /\ BitAnd(relations'.hash[x].pre[next], HARD) # 0 =>
                  /\ ArcHasBit(relations, <<node, next>>, HARD)
                  /\ ArcHasBit(relations, <<x, node>>, HARD)

\* C23: after _dropRelation(node, next) every other package x that requires
\* node has an arc to next: the old one with its flags, or a new VIRTUAL one
\* that is HARD only if the dropped arc and the arc of x to node were.
C23_VirtualArcs ==
    [][\A node, next \in DOMAIN relations.hash :
          Drops(node, next) =>
              \A x \in DOMAIN relations.hash \ {node, next} :
                  node \in DOMAIN relations'.hash[x].pre => C23_ArcTo(x, node, next)]_vars

\* the same for the packages x whose own arc to next was not dropped before
C23_UnlessDropped ==
    [][\A node, next \in DOMAIN relations.hash :
          Drops(node, next) =>
              \A x \in DOMAIN relations.hash \ {node, next} :
                  (/\ node \in DOMAIN relations'.hash[x].pre
                   /\ ~WasDropped(<<x, next>>)) => C23_ArcTo(x, node, next)]_vars

\* a drop of a HARD arc has given a package with a HARD arc to node a new arc
\* to next, VIRTUAL and HARD
C23_Witness ==
    /\ pc = "separate"
    /\ \E x, next \in DOMAIN relations.hash :
          /\ next \in DOMAIN relations.hash[x].pre
          /\ relations.hash[x].pre[next] = BitOr(VIRTUAL, HARD)
    /\ \E x \in DOMAIN relations.dropped_relations : relations.dropped_relations[x] # <<>>

(***************************************************************************)
(* Claims on runs that only one string has.                                *)
(***************************************************************************)
\* the strings from (i1, i2) on: side is the string (1 or 2) that alone has an
\* alphanumeric run left after the separators, once the runs before it have
\* compared equal, and digit says whether that run is one of digits; side 0
\* if the comparison is decided otherwise
RECURSIVE C24_OneRun(_, _, _, _)
C24_OneRun(str1, str2, i1, i2) ==
    LET s1 == ScanWhile("sep", str1, i1, Len(str1))
        s2 == ScanWhile("sep", str2, i2, Len(str2))
        isnum == s1 < Len(str1) /\ xisdigit(str1[s1 + 1])
        k == IF isnum THEN "digit" ELSE "alpha"
        j1 == ScanWhile(k, str1, s1, Len(str1))
        j2 == ScanWhile(k, str2, s2, Len(str2))
        z1 == IF isnum THEN ScanWhile("zero", str1, s1, j1) ELSE s1
        z2 == IF isnum THEN ScanWhile("zero", str2, s2, j2) ELSE s2
    IN  IF s1 < Len(str1) /\ s2 >= Len(str2)
        THEN [side |-> 1, digit |-> xisdigit(str1[s1 + 1])]
        ELSE IF s1 >= Len(str1) /\ s2 < Len(str2)
        THEN [side |-> 2, digit |-> xisdigit(str2[s2 + 1])]
        ELSE IF s1 >= Len(str1) \/ j1 = s1 \/ j2 = s2
                \/ Slice(str1, z1, j1) # Slice(str2, z2, j2)
        THEN [side |-> 0, digit |-> FALSE]
        ELSE C24_OneRun(str1, str2, j1, j2)

\* C24: when only one of the two strings has a run left, that string compares
\* greater, whether the run is of digits or of letters and whichever of the
\* two is the first argument.
C24_OneRunWins ==
    Returned("stringCompare") =>
        LET c == C24_OneRun(arg.a, arg.b, 0, 0)
        IN  /\ c.side = 1 => res.fwd = 1 /\ res.rev = -1
            /\ c.side = 2 => res.fwd = -1 /\ res.rev = 1

\* C24 for a run of digits alone
C24_DigitRunWins ==
    Returned("stringCompare") =>
        LET c == C24_OneRun(arg.a, arg.b, 0, 0)
        IN  /\ (c.side = 1 /\ c.digit) => res.fwd = 1 /\ res.rev = -1
            /\ (c.side = 2 /\ c.digit) => res.fwd = -1 /\ res.rev = 1

(***************************************************************************)
(* __parseIndex on repeated tags: Init draws the index entries of a header *)
(* over one store, the call decodes them.                                  *)
(***************************************************************************)
\* most index entries of the header
MaxDup == 3

\* name, dirindexes, basenames, dirnames
DupTags == {rpmtag[n][1] : n \in {"name", "dirindexes", "basenames", "dirnames"}}

\* "a\x00\x00a\x00": the strings "a", "", "a" at the offsets 0, 2, 3
DupStore == <<ChA, 0, 0, ChA, 0>>

DupOffsets == {0, 2, 3}

DupEntries == DupTags \X {RPM_STRING, RPM_STRING_ARRAY} \X DupOffsets \X {1}

InitParse ==
    /\ \E n \in 1..MaxDup, strict \in BOOLEAN :
          \E index \in [1..n -> DupEntries] :
             arg = [fn |-> "parseIndex", strict |-> strict, index |-> index, store |-> DupStore]
    /\ res = NoRes
    /\ pc = "call"
    /\ OrderIdle
    /\ CpioIdle
    /\ IndexIdle
    /\ BatchIdle
    /\ InstIdle

CallParseIndex ==
    /\ arg.fn = "parseIndex"
    /\ pc = "call"
    /\ pc' = "ret"
    /\ res' = parseIndex([strict |-> arg.strict], Len(arg.index), PackIndex(arg.index),
                         arg.store, rpmtag)
    /\ UNCHANGED arg
    /\ UNCHANGED orderVars
    /\ UNCHANGED cpioVars
    /\ UNCHANGED <<indexVars, batchVars, instVars>>

NextParse == CallParseIndex

SpecParse == InitParse /\ [][NextParse]_vars

(***************************************************************************)
(* Claims on repeated tags.                                                *)
(***************************************************************************)
\* the entries (1-based) of the index with this tag
C25_Occurrences(tag) == {k \in 1..Len(arg.index) : arg.index[k][1] = tag}

\* the n-th smallest element of a set of numbers
RECURSIVE C25_Nth(_, _)
C25_Nth(S, n) ==
    LET lo == CHOOSE x \in S : \A y \in S : x <= y
    IN  IF n = 1 THEN lo ELSE C25_Nth(S \ {lo}, n - 1)

\* the value of entry k
C25_Value(k) == DecodeEntry(arg.index[k][2], arg.store, arg.index[k][3], arg.index[k][4]).v

\* what is claimed of the entries with one tag; upto is the number of entries
\* with the tag up to which the alias is looked at
C25_Policy(tag, upto) ==
    LET occ == C25_Occurrences(tag)
        nametag == nametagOf(rpmtag, tag)
        first == C25_Nth(occ, 1)
    IN  /\ (occ = {}) <=> (nametag \notin DOMAIN res.hdr)
        /\ occ # {} => PyEqual(res.hdr[nametag], C25_Value(first))
        /\ (Cardinality(occ) >= 2 /\ DuplicateName(nametag) # None) =>
              /\ DuplicateName(nametag) \in DOMAIN res.hdr
              /\ Cardinality(occ) <= upto =>
                    PyEqual(res.hdr[DuplicateName(nametag)], C25_Value(C25_Nth(occ, 2)))
        /\ (occ # {} /\ DuplicateName(nametag) = None) =>
              /\ Count(res.printed, tag) <= Cardinality(occ \ {first})
              /\ Count(res.printed, tag) < Cardinality(occ \ {first}) =>
                    \E k \in occ \ {first} : PyEqual(C25_Value(k), C25_Value(first))
              /\ Count(res.printed, tag) >=
                    Cardinality({k \in occ : ~PyEqual(C25_Value(k), C25_Value(first))})

\* C25: after __parseIndex has decoded any sequence of entries a tag name is
\* bound to the value of the first entry with its tag; the second entry of
\* dirindexes, dirnames and basenames is bound to the alias; another repeated
\* entry is bound to nothing, without a diagnostic only if its value is the
\* first one and with one if it differs.
C25_FirstOccurrence ==
    (Returned("parseIndex") /\ ~res.raised) => \A tag \in DupTags : C25_Policy(tag, MaxDup + 1)

\* C25 for headers that have dirindexes, dirnames and basenames twice at most
C25_UpToTwice ==
    (Returned("parseIndex") /\ ~res.raised) => \A tag \in DupTags : C25_Policy(tag, 2)

(***************************************************************************)
(* writeHeader on tag sets with the region tag: Init draws the tags that   *)
(* are set, their values and useinstall, the call writes the header.       *)
(***************************************************************************)
\* the tag names a drawn tag set is taken from
WriteNames == {"immutable", "name", "basenames", "install_gpg", "install_sha1header",
               "instprefixes"}

\* the longest value of a drawn tag
MaxValue == 1

\* the value a tag of the given type is set to: n bytes or n strings
WriteValue(ttype, n) ==
    IF ttype = RPM_STRING_ARRAY THEN [py |-> "list", v |-> [i \in 1..n |-> <<ChA>>]]
    ELSE [py |-> "str", v |-> [i \in 1..n |-> ChA]]

InitWrite ==
    /\ \E names \in SUBSET WriteNames, useinstall \in BOOLEAN :
         \E len \in [names -> 0..MaxValue] :
            arg = [fn |-> "writeHeader",
                   tags |-> [n \in names |-> WriteValue(rpmdbtag[n][2], len[n])],
                   useinstall |-> useinstall]
    /\ res = NoRes
    /\ pc = "call"
    /\ OrderIdle
    /\ CpioIdle
    /\ IndexIdle
    /\ BatchIdle
    /\ InstIdle

CallWriteHeader ==
    /\ arg.fn = "writeHeader"
    /\ pc = "call"
    /\ pc' = "ret"
    /\ res' = writeHeader(arg.tags, rpmdbtag, "immutable", {}, arg.useinstall, 0)
    /\ UNCHANGED arg
    /\ UNCHANGED orderVars
    /\ UNCHANGED cpioVars
    /\ UNCHANGED <<indexVars, batchVars, instVars>>

NextWrite == CallWriteHeader

SpecWrite == InitWrite /\ [][NextWrite]_vars

\* the first index entry of the written header: (tag, type, offset, count)
C26_FirstEntry == Unpack4I(res.out[3], 1)

\* the index of the written header starts with the entry of the region tag
C26_IndexFirst ==
    /\ res.out[1] >= 1
    /\ C26_FirstEntry[1] = rpmdbtag["immutable"][1]
    /\ C26_FirstEntry[2] = RPM_BIN
    /\ C26_FirstEntry[4] = Len(arg.tags["immutable"].v)

\* the store of the written header ends with the value of the region tag
C26_StoreLast ==
    /\ C26_FirstEntry[3] + C26_FirstEntry[4] = res.out[2]
    /\ SubSeq(res.out[4], C26_FirstEntry[3] + 1, res.out[2]) = arg.tags["immutable"].v

\* a tag of the set that writeHeader writes as an install-only tag
C26_InstallTag == arg.useinstall /\ \E n \in DOMAIN arg.tags : n \in install_keys

C26_Written ==
    /\ Returned("writeHeader")
    /\ "immutable" \in DOMAIN arg.tags
    /\ ~res.raised

\* C26: for every tag set with the region tag, writeHeader puts the index
\* entry of the region tag first in the index and the bytes of its value last
\* in the store, with useinstall set and with useinstall not set.
C26_RegionFirstAndLast == C26_Written => C26_IndexFirst /\ C26_StoreLast

\* C26, as far as it holds: the index entry of the region tag is always
\* first; the bytes of its value are last in the store unless an install-only
\* tag is written, whose bytes then follow them.
C26_LastButInstall ==
    C26_Written => /\ C26_IndexFirst
                   /\ (~C26_InstallTag => C26_StoreLast)
                   /\ (C26_InstallTag /\ (\E n \in DOMAIN arg.tags : n \in install_keys /\ arg.tags[n].v # <<>>)
                          => ~C26_StoreLast)

(***************************************************************************)
(* The constructor of PyGZIP, one step for each read of the gzip header.   *)
(* inst is the reader: fd is what is left of the stream, c the last byte   *)
(* read by a string field, <<>> at the end of the stream.                  *)
(***************************************************************************)
\* readsize = None
NoReadsize == <<>>

\* self.readsize -= n, if self.readsize != None
DecReadsize(readsize, n) == IF readsize = NoReadsize THEN NoReadsize ELSE <<readsize[1] - n>>

\* fd.read(n): [data, fd]
FdRead(f, n) ==
    IF Len(f) <= n THEN [data |-> f, fd |-> <<>>]
    ELSE [data |-> SubSeq(f, 1, n), fd |-> SubSeq(f, n + 1, Len(f))]

\* "\037\213\010"
GzMagic == <<31, 139, 8>>

\* most bytes after the ten bytes of the header, the readsize passed, and the
\* most that readsize goes below zero
MaxTail == 3

MaxReadsize == 12

MaxSpin == 2

\* the flag bytes: every choice of FHCRC (2), FEXTRA (4), FNAME (8), FCOMMENT (16)
GzFlags == {2 * n : n \in 0..15}

GzRaise(type) ==
    /\ pc' = "ret"
    /\ res' = [raised |-> type]
    /\ UNCHANGED inst

InitGzip ==
    /\ \E magic \in {GzMagic, <<31, 139, 0>>}, flag \in GzFlags,
          tail \in SeqsOf({0, 1}, 0, MaxTail), cut \in 0..(10 + MaxTail),
          readsize \in {NoReadsize, <<MaxReadsize>>} :
         /\ cut \in {3, 10 + Len(tail)}
         /\ arg = [fn |-> "PyGZIP",
                   fd |-> SubSeq(magic \o <<flag, 0, 0, 0, 0, 0, 0>> \o tail, 1, cut),
                   readsize |-> readsize]
         /\ inst = [fd |-> arg.fd, readsize |-> readsize, flag |-> 0, c |-> <<>>]
    /\ res = NoRes
    /\ log = <<>>
    /\ pc = "call"
    /\ OrderIdle
    /\ CpioIdle
    /\ IndexIdle
    /\ BatchIdle

\* up to "flag = ord(data[3])"
GzHeader ==
    /\ arg.fn = "PyGZIP"
    /\ pc = "call"
    /\ LET r == FdRead(inst.fd, 10)
       IN  IF Len(r.data) # 10 THEN GzRaise("IOError")
           ELSE IF SubSeq(r.data, 1, 3) # GzMagic THEN GzRaise("ValueError")
           ELSE /\ inst' = [inst EXCEPT !.fd = r.fd, !.flag = r.data[4],
                                        !.readsize = DecReadsize(inst.readsize, 10)]
                /\ pc' = "extra"
                /\ UNCHANGED res
    /\ UNCHANGED <<arg, log>>
    /\ UNCHANGED orderVars
    /\ UNCHANGED cpioVars
    /\ UNCHANGED <<indexVars, batchVars>>

\* "if flag & 4": ord() of the empty string raises TypeError
GzExtra ==
    /\ arg.fn = "PyGZIP"
    /\ pc = "extra"
    /\ IF ~HasBit(inst.flag, 2) THEN pc' = "fname" /\ UNCHANGED <<inst, res>>
       ELSE LET r == FdRead(inst.fd, 2)
                xlen == r.data[1] + 256 * r.data[2]
            IN  IF Len(r.data) # 2 THEN GzRaise("TypeError")
                ELSE IF Len(r.fd) < xlen THEN GzRaise("IOError")
                ELSE /\ inst' = [inst EXCEPT !.fd = FdRead(r.fd, xlen).fd,
                                             !.readsize = DecReadsize(inst.readsize, 2 + xlen)]
                     /\ pc' = "fname"
                     /\ UNCHANGED res
    /\ UNCHANGED <<arg, log>>
    /\ UNCHANGED orderVars
    /\ UNCHANGED cpioVars
    /\ UNCHANGED <<indexVars, batchVars>>

\* self.fd.read(1) of a string field, when its flag bit is set
GzStringRead(at, bit, test, after) ==
    /\ arg.fn = "PyGZIP"
    /\ pc = at
    /\ IF ~HasBit(inst.flag, bit) THEN pc' = after /\ UNCHANGED inst
       ELSE LET r == FdRead(inst.fd, 1)
            IN  /\ inst' = [inst EXCEPT !.fd = r.fd, !.c = r.data]
                /\ pc' = test
    /\ UNCHANGED <<arg, res, log>>
    /\ UNCHANGED orderVars
    /\ UNCHANGED cpioVars
    /\ UNCHANGED <<indexVars, batchVars>>

\* the test "!= "\000"" of a string field: the body of the loop and the read
\* again, or the statement after the loop
GzStringTest(at, test, after) ==
    /\ arg.fn = "PyGZIP"
    /\ pc = test
    /\ IF inst.c = <<0>> \/ inst.readsize = NoReadsize THEN TRUE
       ELSE inst.readsize[1] > -MaxSpin
    /\ inst' = [inst EXCEPT !.readsize = DecReadsize(inst.readsize, 1)]
    /\ pc' = IF inst.c = <<0>> THEN after ELSE at
    /\ UNCHANGED <<arg, res, log>>
    /\ UNCHANGED orderVars
    /\ UNCHANGED cpioVars
    /\ UNCHANGED <<indexVars, batchVars>>

GzNameRead == GzStringRead("fname", 3, "fname_test", "fcomment")

GzNameTest == GzStringTest("fname", "fname_test", "fcomment")

GzCommentRead == GzStringRead("fcomment", 4, "fcomment_test", "fhcrc")

GzCommentTest == GzStringTest("fcomment", "fcomment_test", "fhcrc")

\* "if flag & 2" and the end of the constructor
GzCrc ==
    /\ arg.fn = "PyGZIP"
    /\ pc = "fhcrc"
    /\ IF HasBit(inst.flag, 1) /\ Len(inst.fd) < 2 THEN GzRaise("IOError")
       ELSE /\ inst' = IF HasBit(inst.flag, 1)
                       THEN [inst EXCEPT !.fd = FdRead(inst.fd, 2).fd,
                                         !.readsize = DecReadsize(inst.readsize, 2)]
                       ELSE inst
            /\ pc' = "ret"
            /\ res' = [raised |-> "none"]
    /\ UNCHANGED <<arg, log>>
    /\ UNCHANGED orderVars
    /\ UNCHANGED cpioVars
    /\ UNCHANGED <<indexVars, batchVars>>

NextGzip ==
    \/ GzHeader
    \/ GzExtra
    \/ GzNameRead
    \/ GzNameTest
    \/ GzCommentRead
    \/ GzCommentTest
    \/ GzCrc

SpecGzip == InitGzip /\ [][NextGzip]_vars

\* the constructor runs on: no step of it that can be taken waits for ever
SpecGzipLive == SpecGzip /\ WF_vars(NextGzip)

\* C27: the constructor of PyGZIP always terminates, returning the reader or
\* raising, for every stream, also one that ends in FEXTRA, FNAME or FCOMMENT.
C27_Terminates == <>(pc = "ret")

\* a string field is being read and the stream holds no zero byte any more
C27_NoEnd ==
    /\ pc \in {"fname", "fcomment"}
    /\ HasBit(inst.flag, IF pc = "fname" THEN 3 ELSE 4)
    /\ \A i \in 1..Len(inst.fd) : inst.fd[i] # 0

\* C27, as far as it holds: the constructor terminates unless it comes to
\* read FNAME or FCOMMENT with no zero byte left in the stream; it always
\* terminates when the stream ends before or inside FEXTRA.
C27_TerminatesOrNoEnd == <>(pc = "ret" \/ C27_NoEnd)

\* from a string field with no zero byte left the constructor never returns
C27_NoEndForEver == [](C27_NoEnd => [](pc # "ret"))

(***************************************************************************)
(* Claims on the two maps of a Relation.                                   *)
(***************************************************************************)
\* the packages of the graph
C28_Graph == DOMAIN relations.hash

\* B is a key of relations[A].pre exactly if A is a key of relations[B].post
C28_Mirror ==
    \A a \in C28_Graph, b \in C28_Graph :
        b \in DOMAIN relations.hash[a].pre <=> a \in DOMAIN relations.hash[b].post

\* every key of a pre or post map is a package of the graph
C28_KeysInGraph ==
    \A a \in C28_Graph :
        /\ DOMAIN relations.hash[a].pre \subseteq C28_Graph
        /\ DOMAIN relations.hash[a].post \subseteq C28_Graph

\* C28: in every state of building and ordering the graph, after genRelations
\* and after each removeRelation and _dropRelation, pre and post mirror each
\* other and every key of a pre or post map is a package still in the graph.
C28_PrePostMirror ==
    /\ C28_Mirror
    /\ C28_KeysInGraph
    /\ C28_Graph = SeqToSet(relations.list)

\* an arc was dropped, a package was removed after that, and arcs are left
C28_Witness ==
    /\ pc = "separate"
    /\ relations.dropped_relations # EmptyDict
    /\ \E a \in SeqToSet(orderer.installs) : a \notin C28_Graph
    /\ \E a \in C28_Graph : DOMAIN relations.hash[a].pre # {}

(***************************************************************************)
(* _genOrder comes to an end.  Its steps follow one another as the         *)
(* statements of one thread do: a step that can be taken is taken.         *)
(***************************************************************************)
SpecOrderLive == SpecOrder /\ WF_vars(NextInstall)

\* the arcs <<node, next>> dropped so far
C29_Dropped(R) ==
    {a \in (DOMAIN R.dropped_relations) \X SeqToSet(FourPkgs \o FivePkgs) :
        InSeq(a[2], R.dropped_relations[a[1]])}

\* the arcs <<pkg, pre>> of the graph
C29_Arcs(R) == {a \in (DOMAIN R.hash) \X (DOMAIN R.hash) : a[2] \in DOMAIN R.hash[a[1]].pre}

\* _genOrder does not return None and nothing raises
C29_NotNone == pc # "None" /\ pc # "raised"

\* no dropped arc is an arc of the graph again
C29_StayDropped == C29_Dropped(relations) \cap C29_Arcs(relations) = {}

\* when the graph has packages and each has a pre, detectLoops finds a loop
C29_LoopFound ==
    (relations.list # <<>> /\ \A a \in DOMAIN relations.hash : DOMAIN relations.hash[a].pre # {})
        => \A loops \in detectLoops(relations) : Len(loops) >= 1

\* a step of the main loop: separatePostLeafNodes removes a package or leaves
\* the graph alone, getNextLeafNode removes a package or finds none, and then
\* breakupLoop drops one arc that was not dropped before
C29_Step ==
    /\ pc = "separate" /\ relations' # relations => Len(relations'.list) = Len(relations.list) - 1
    /\ pc = "leaf" => \/ Len(relations'.list) = Len(relations.list) - 1
                      \/ pc' = "loops" /\ relations' = relations
    /\ pc = "loops" => /\ pc' = "separate"
                       /\ relations'.list = relations.list
                       /\ \E a \in C29_Arcs(relations) \ C29_Dropped(relations) :
                            /\ C29_Dropped(relations') = C29_Dropped(relations) \cup {a}
                            /\ a \notin C29_Arcs(relations')

\* C29: _genOrder terminates on every graph without self-arcs and returns an
\* order, not None: every iteration removes a package or drops one arc, a
\* dropped arc is never added back as a virtual arc, and detectLoops finds a
\* loop whenever no package has an empty pre.
C29_GenOrderTerminates ==
    /\ [](C29_NotNone /\ C29_StayDropped /\ C29_LoopFound)
    /\ [][C29_Step]_vars
    /\ <>(pc = "return" /\ relations.list = <<>>)

\* _genOrder returns the order of all four packages after it dropped two arcs
C29_Witness ==
    /\ pc = "return"
    /\ Cardinality(C29_Dropped(relations)) >= 2
    /\ Len(order \o last) = Len(orderer.installs)
    /\ Len(orderer.installs) = Len(FourPkgs)

(***************************************************************************)
(* RpmResolver.addPkg and removePkg.  inst is the resolver; a package is   *)
(* [issrc, hdr], and a list holds the name of a package for the object.    *)
(***************************************************************************)
\* phash.setdefault(key, []).append(entry)
SetDefaultAppend(phash, key, entry) ==
    DictSet(phash, key, Append(IF key \in DOMAIN phash THEN phash[key] ELSE <<>>, entry))

\* the for loop of addProvides from provide k on
RECURSIVE addProvidesLoop(_, _, _, _)
addProvidesLoop(self, phash, provs, k) ==
    IF k > Len(provs) THEN phash
    ELSE addProvidesLoop(self,
             SetDefaultAppend(phash, provs[k][1], <<provs[k][2], provs[k][3], self.hdr.name>>),
             provs, k + 1)

addProvides(self, phash) == addProvidesLoop(self, phash, getProvides(self), 1)

\* the for loop of removeProvides from provide k on
RECURSIVE removeProvidesLoop(_, _, _, _)
removeProvidesLoop(self, phash, provs, k) ==
    IF k > Len(provs) THEN phash
    ELSE removeProvidesLoop(self,
             DictSet(phash, provs[k][1],
                     SeqRemove(phash[provs[k][1]], <<provs[k][2], provs[k][3], self.hdr.name>>)),
             provs, k + 1)

removeProvides(self, phash) == removeProvidesLoop(self, phash, getProvides(self), 1)

\* the for loop of addDeps from dependency k on
RECURSIVE addDepsLoop(_, _, _, _)
addDepsLoop(self, phash, deps, k) ==
    IF k > Len(deps) THEN phash
    ELSE addDepsLoop(self, SetDefaultAppend(phash, deps[k], self.hdr.name), deps, k + 1)

addDeps(self, name, flag, version, phash) ==
    addDepsLoop(self, phash, getDeps(self, name, flag, version), 1)

\* the for loop of removeDeps from dependency k on
RECURSIVE removeDepsLoop(_, _, _, _)
removeDepsLoop(self, phash, deps, k) ==
    IF k > Len(deps) THEN phash
    ELSE removeDepsLoop(self, DictSet(phash, deps[k], SeqRemove(phash[deps[k]], self.hdr.name)),
                        deps, k + 1)

removeDeps(self, name, flag, version, phash) ==
    removeDepsLoop(self, phash, getDeps(self, name, flag, version), 1)

\* RpmResolver([], checkfileconflicts)
NewRpmResolver(checkfileconflicts) ==
    [rpms |-> <<>>,
     filenames_list |-> [checkfileconflicts |-> checkfileconflicts, path |-> EmptyDict],
     provides_list |-> EmptyDict, obsoletes_list |-> EmptyDict,
     conflicts_list |-> EmptyDict, requires_list |-> EmptyDict]

RpmResolver_addPkg(self, pkg) ==
    [rpms |-> Append(self.rpms, pkg.hdr.name),
     filenames_list |-> FilenamesList_addPkg(self.filenames_list, pkg.hdr),
     provides_list |-> addProvides(pkg, self.provides_list),
     obsoletes_list |-> addDeps(pkg, "obsoletename", "obsoleteflags", "obsoleteversion",
                                self.obsoletes_list),
     conflicts_list |-> addDeps(pkg, "conflictname", "conflictflags", "conflictversion",
                                self.conflicts_list),
     requires_list |-> addDeps(pkg, "requirename", "requireflags", "requireversion",
                               self.requires_list)]

\* removePkg that leaves the provides of the package in provides_list
RpmResolver_removePkgKeepProvides(self, pkg) ==
    [rpms |-> SeqRemove(self.rpms, pkg.hdr.name),
     filenames_list |-> FilenamesList_removePkg(self.filenames_list, pkg.hdr),
     provides_list |-> self.provides_list,
     obsoletes_list |-> removeDeps(pkg, "obsoletename", "obsoleteflags", "obsoleteversion",
                                   self.obsoletes_list),
     conflicts_list |-> removeDeps(pkg, "conflictname", "conflictflags", "conflictversion",
                                   self.conflicts_list),
     requires_list |-> removeDeps(pkg, "requirename", "requireflags", "requireversion",
                                  self.requires_list)]

RpmResolver_removePkg(self, pkg) ==
    [rpms |-> SeqRemove(self.rpms, pkg.hdr.name),
     filenames_list |-> FilenamesList_removePkg(self.filenames_list, pkg.hdr),
     provides_list |-> removeProvides(pkg, self.provides_list),
     obsoletes_list |-> removeDeps(pkg, "obsoletename", "obsoleteflags", "obsoleteversion",
                                   self.obsoletes_list),
     conflicts_list |-> removeDeps(pkg, "conflictname", "conflictflags", "conflictversion",
                                   self.conflicts_list),
     requires_list |-> removeDeps(pkg, "requirename", "requireflags", "requireversion",
                                  self.requires_list)]

(***************************************************************************)
(* The resolver under test: packages are added and removed; log holds the  *)
(* last call with the resolver as it was before it, and the addPkg before  *)
(* it when the last call is the removePkg of the package just added.       *)
(***************************************************************************)
\* most times a package is in the resolver at once
MaxHeld == 2

ChX == 120

\* a: provides x, requires x, file /a;  b: provides x = 1 and x, conflicts
\* with a, obsoletes x, files /a and /b;  c: requires x twice, no files
ResolverPkgs ==
    {[issrc |-> FALSE,
      hdr |-> [name |-> <<ChA>>, version |-> <<ChOne>>, release |-> <<ChOne>>,
               providename |-> <<<<ChX>>>>, provideflags |-> <<0>>, provideversion |-> <<<<>>>>,
               requirename |-> <<<<ChX>>>>, requireflags |-> <<0>>, requireversion |-> <<<<>>>>,
               basenames |-> <<<<ChA>>>>, dirindexes |-> <<0>>, dirnames |-> <<DirRoot>>]],
     [issrc |-> FALSE,
      hdr |-> [name |-> <<ChB>>, version |-> <<ChTwo>>, release |-> <<ChOne>>,
               providename |-> <<<<ChX>>, <<ChX>>>>, provideflags |-> <<RPMSENSE_EQUAL, 0>>,
               provideversion |-> <<<<ChOne>>, <<>>>>,
               conflictname |-> <<<<ChA>>>>, conflictflags |-> <<0>>,
               conflictversion |-> <<<<>>>>,
               obsoletename |-> <<<<ChX>>>>, obsoleteflags |-> <<0>>,
               obsoleteversion |-> <<<<>>>>,
               basenames |-> <<<<ChA>>, <<ChB>>>>, dirindexes |-> <<0, 0>>,
               dirnames |-> <<DirRoot>>]],
     [issrc |-> FALSE,
      hdr |-> [name |-> <<ChX>>, version |-> <<ChOne>>, release |-> <<ChTwo>>,
               requirename |-> <<<<ChX>>, <<ChX>>>>, requireflags |-> <<0, 0>>,
               requireversion |-> <<<<>>, <<>>>>]]}

InitResolverPkgs ==
    /\ \E c \in BOOLEAN : inst = NewRpmResolver(c)
    /\ log = <<>>
    /\ pc = "call"
    /\ PureIdle
    /\ OrderIdle
    /\ CpioIdle
    /\ IndexIdle
    /\ BatchIdle

ResolverAddPkg ==
    \E pkg \in ResolverPkgs :
        /\ Count(inst.rpms, pkg.hdr.name) < MaxHeld
        /\ inst' = RpmResolver_addPkg(inst, pkg)
        /\ log' = <<[call |-> "addPkg", pkg |-> pkg.hdr.name, before |-> inst]>>
        /\ pc' = "ret"
        /\ UNCHANGED pureVars
        /\ UNCHANGED orderVars
        /\ UNCHANGED cpioVars
        /\ UNCHANGED <<indexVars, batchVars>>

\* removePkg of a package that is in the resolver
ResolverRemovePkg ==
    \E pkg \in ResolverPkgs :
        /\ InSeq(pkg.hdr.name, inst.rpms)
        /\ inst' = RpmResolver_removePkg(inst, pkg)
        /\ log' = (IF Len(log) = 1 /\ log[1].call = "addPkg" /\ log[1].pkg = pkg.hdr.name
                   THEN log ELSE <<>>)
                  \o <<[call |-> "removePkg", pkg |-> pkg.hdr.name, before |-> inst]>>
        /\ pc' = "ret"
        /\ UNCHANGED pureVars
        /\ UNCHANGED orderVars
        /\ UNCHANGED cpioVars
        /\ UNCHANGED <<indexVars, batchVars>>

NextResolverPkgs == ResolverAddPkg \/ ResolverRemovePkg

SpecResolverPkgs == InitResolverPkgs /\ [][NextResolverPkgs]_vars

(***************************************************************************)
(* Claims on addPkg followed by removePkg.                                 *)
(***************************************************************************)
\* the queries: x, a, /a, /b and 1, with and without a version
C30_Queries ==
    {<<ChX>>, <<ChA>>, <<ChSlash, ChA>>, <<ChSlash, ChB>>, <<ChOne>>}
        \X {0, RPMSENSE_EQUAL} \X {<<>>, <<ChOne>>}

C30_Answer(self, q) == RpmResolver_searchDependency(self, q[1], q[2], q[3])

\* the two lists have the same members, each as often
C30_SameMembers(l1, l2) ==
    \A x \in SeqToSet(l1) \cup SeqToSet(l2) : Count(l1, x) = Count(l2, x)

\* the list of a key, empty when the key is not there
C30_ListOf(phash, key) == IF key \in DOMAIN phash THEN phash[key] ELSE <<>>

C30_SameContributors(h1, h2) ==
    \A key \in DOMAIN h1 \cup DOMAIN h2 : C30_SameMembers(C30_ListOf(h1, key), C30_ListOf(h2, key))

C30_SameLists(a, b) ==
    /\ C30_SameMembers(a.rpms, b.rpms)
    /\ C30_SameContributors(a.requires_list, b.requires_list)
    /\ C30_SameContributors(a.conflicts_list, b.conflicts_list)
    /\ C30_SameContributors(a.obsoletes_list, b.obsoletes_list)

\* the last two calls were addPkg(p) and removePkg(p)
C30_AddedAndRemoved == Len(log) = 2

\* C30: in any state reached by addPkg and removePkg calls, addPkg(p) and then
\* removePkg(p) leaves the answer of searchDependency unchanged for every
\* query, and the package list and the requires, conflicts and obsoletes
\* lists with the same members.
C30_AddThenRemove ==
    C30_AddedAndRemoved =>
        /\ \A q \in C30_Queries : C30_Answer(inst, q) = C30_Answer(log[1].before, q)
        /\ C30_SameLists(inst, log[1].before)

\* C30, for any p: the lists keep their members and every answer keeps its
\* members, and the answers are unchanged when p was not in the resolver
\* before the addPkg; when it was, an answer may come in another order.
C30_AddThenRemoveMembers ==
    C30_AddedAndRemoved =>
        /\ \A q \in C30_Queries :
              /\ C30_SameMembers(C30_Answer(inst, q), C30_Answer(log[1].before, q))
              /\ ~InSeq(log[1].pkg, log[1].before.rpms)
                    => C30_Answer(inst, q) = C30_Answer(log[1].before, q)
        /\ C30_SameLists(inst, log[1].before)

\* a package that was not in the resolver was added to two others and removed,
\* and while it was in some answer was another one
C30_Witness ==
    /\ C30_AddedAndRemoved
    /\ ~InSeq(log[1].pkg, log[1].before.rpms)
    /\ Len(log[1].before.rpms) >= 2
    /\ \E q \in C30_Queries : C30_Answer(log[2].before, q) # C30_Answer(inst, q)

====
